---- MODULE Spec2Model ----
(***************************************************************************)
(* Request-admission and cost-control layer: the token-bucket RateLimiter *)
(* (lib/rateLimiter.ts), the ApiKeyManager daily quota and the TTL Cache   *)
(* (lib/auditLogger.ts).  Time is the value of Date.now(), in model ticks. *)
(***************************************************************************)
EXTENDS Integers, FiniteSets, Sequences, TLC

\* ---------------------------------------------------------------- bounds
MaxTime == 3        \* the clock runs over 0..MaxTime
MaxStep == 3        \* largest single advance of the clock
MaxCap == 2         \* RATE_LIMIT_MAX_REQUESTS ranges over 1..MaxCap
MaxWindow == 2      \* RATE_LIMIT_WINDOW_MS ranges over 1..MaxWindow
MaxLimit == 2       \* dailyLimit (1500, 10000) ranges over 1..MaxLimit
DayMs == 2          \* the 24 hours of resetIfNeeded, in model ticks
MaxTtl == 2         \* ttl arguments range over 0..MaxTtl, or are omitted
MaxPlaces == 2      \* the places prop of a map component holds 0..MaxPlaces places
MaxCalls == 4       \* log calls followed since construction or the last clear

Limiters == {"aiChat", "maps"}

\* identifiers that name a property every plain object inherits from
\* Object.prototype (constructor, toString, valueOf, __proto__, ...): one stands
\* for all, the code treats them alike
Inherited == {"constructor"}

\* identifiers that name no such property, as every `${ip}:${userAgent}` of
\* getClientIdentifier
Ids == {"A", "B"}

VARIABLES
  now,          \* Date.now()
  maxRequests,  \* RateLimiter.maxRequests, per instance
  windowMs,     \* RateLimiter.windowMs, per instance
  store,        \* the module-level RateLimitStore: identifier -> bucket
  rlRet,        \* what the last RateLimiter call returned
  seen,         \* history: per stored bucket, creation time and checks so far
  after,        \* history: per identifier, the resetAt of its last check if that
                \* was denied, and whether reset has removed its bucket since
  apiKeys,      \* ApiKeyManager.googleAiKey / googleMapsKey (absent = null)
  keyRet,       \* what the last ApiKeyManager call returned
  recent,       \* history: grants per service at each of the last DayMs + 1 times
  cache,        \* Cache.cache: key -> entry
  cacheRet,     \* what the last Cache call was and returned
  lastSet,      \* history: per key, the last set not followed by delete or clear
  enableRateLimiting,  \* process.env.ENABLE_RATE_LIMITING === 'true'
  reqs,         \* the requests in flight: where each handler is suspended
  resp,         \* the response the last handler step sent, if it sent one
  admitted,     \* history: per followed identifier, the allowed checks at each time
  refilled,     \* history: per followed identifier, the lastRefill its last check left
  view,         \* a mounted map component: its state hooks, refs and props
  enabled,      \* AuditLogger.enabled
  logs,         \* AuditLogger.logs
  logsRet,      \* the array the last getLogs call returned, as its caller holds it
  logged        \* history: log calls stored since construction or the last clear

rlVars == <<maxRequests, windowMs, store, rlRet, seen, after, admitted, refilled>>
keyVars == <<apiKeys, keyRet, recent>>
cacheVars == <<cache, cacheRet, lastSet>>
routeVars == <<enableRateLimiting, reqs, resp>>
viewVars == <<view>>
auditVars == <<enabled, logs, logsRet, logged>>

Min(a, b) == IF a < b THEN a ELSE b

\* f with key k bound to v (k is added when missing)
Put(f, k, v) == [x \in (DOMAIN f) \cup {k} |-> IF x = k THEN v ELSE f[x]]
\* f without the keys in ks
Drop(f, ks) == [x \in (DOMAIN f) \ ks |-> f[x]]

\* ----------------------------------------------------------- RateLimiter
NoRlRet == [op |-> "none", lim |-> "none", id |-> "none", allowed |-> FALSE,
            limit |-> 0, remaining |-> 0, resetAt |-> 0]

\* the JavaScript values of a missing property and of arithmetic on it
Undefined == -8
NaN == -9

\* the identifier has a bucket of its own in the store
Stored(id) == id \in DOMAIN store

\* the truthiness of store[identifier], the test check and getInfo make: the
\* store is a plain object, so the lookup of an identifier that has no bucket
\* of its own but names an inherited property finds that property of
\* Object.prototype (a function or an object, truthy)
HasBucket(l, id) == Stored(id) \/ id \in Inherited

\* store[identifier]: the bucket of the one module-level store, or the
\* inherited property, whose tokens and lastRefill are undefined
BucketOf(l, id) ==
  IF Stored(id) THEN store[id] ELSE [tokens |-> Undefined, lastRefill |-> Undefined]

\* variant: a new bucket is dated from the epoch instead of the call
NewBucketAtEpoch(l, t) == [tokens |-> maxRequests[l] - 1, lastRefill |-> 0]

\* bucket created by the first check of an unseen identifier
NewBucket(l, t) == [tokens |-> maxRequests[l] - 1, lastRefill |-> t]

\* variant: a started window counts as a whole one
RefillAmountEager(l, timePassed) ==
  ((timePassed + windowMs[l] - 1) \div windowMs[l]) * maxRequests[l]

\* variant: a refill needs more than a whole window
RefillAmountLate(l, timePassed) ==
  ((timePassed - 1) \div windowMs[l]) * maxRequests[l]

\* Math.floor(timePassed / windowMs) * maxRequests
RefillAmount(l, timePassed) == (timePassed \div windowMs[l]) * maxRequests[l]

\* variant: a refill that leaves lastRefill where it was
RefillKeepsLast(l, b, t) ==
  LET refillAmount == RefillAmount(l, t - b.lastRefill)
  IN  IF refillAmount > 0
      THEN [tokens |-> Min(maxRequests[l], b.tokens + refillAmount),
            lastRefill |-> b.lastRefill]
      ELSE b

\* variant: a refill without the Math.min cap
RefillNoCap(l, b, t) ==
  LET refillAmount == RefillAmount(l, t - b.lastRefill)
  IN  IF refillAmount > 0
      THEN [tokens |-> b.tokens + refillAmount, lastRefill |-> t]
      ELSE b

\* the refill step of check: tokens topped up and lastRefill moved to now
\* when at least one whole window has passed.  With lastRefill undefined
\* timePassed and refillAmount are NaN, and NaN > 0 is false
Refill(l, b, t) ==
  IF b.lastRefill = Undefined THEN b
  ELSE LET refillAmount == RefillAmount(l, t - b.lastRefill)
       IN  IF refillAmount > 0
           THEN [tokens |-> Min(maxRequests[l], b.tokens + refillAmount),
                 lastRefill |-> t]
           ELSE b

\* variant: resetAt counted from the time of the call
ResetAtFromNow(l, b) == now + windowMs[l]

\* resetAt reported for a bucket; undefined + windowMs is NaN
ResetAt(l, b) == IF b.lastRefill = Undefined THEN NaN ELSE b.lastRefill + windowMs[l]

\* the bucket after the whole check call; undefined > 0 is false
CheckBucket(l, id, t) ==
  IF ~HasBucket(l, id) THEN NewBucket(l, t)
  ELSE LET r == Refill(l, BucketOf(l, id), t)
       IN  IF r.tokens > 0 THEN [r EXCEPT !.tokens = @ - 1] ELSE r

\* the store after the whole check call: the bucket is created or updated in
\* place; for an inherited property no branch of check writes anything
StoreAfterCheck(l, id, t) ==
  IF HasBucket(l, id) /\ ~Stored(id) THEN store
  ELSE Put(store, id, CheckBucket(l, id, t))

\* the value check returns
CheckResult(l, id, t) ==
  IF ~HasBucket(l, id)
  THEN [op |-> "check", lim |-> l, id |-> id, allowed |-> TRUE,
        limit |-> 0, remaining |-> maxRequests[l] - 1,
        resetAt |-> t + windowMs[l]]
  ELSE LET r == Refill(l, BucketOf(l, id), t)
       IN  IF r.tokens > 0
           THEN [op |-> "check", lim |-> l, id |-> id, allowed |-> TRUE,
                 limit |-> 0, remaining |-> r.tokens - 1,
                 resetAt |-> ResetAt(l, r)]
           ELSE [op |-> "check", lim |-> l, id |-> id, allowed |-> FALSE,
                 limit |-> 0, remaining |-> 0, resetAt |-> ResetAt(l, r)]

\* history kept beside the store: when the stored bucket was created and how
\* many checks it has served (counted up to MaxCap + 1)
SeenAfterCheck(id, t) ==
  IF id \notin DOMAIN store' THEN seen
  ELSE IF id \notin DOMAIN seen THEN Put(seen, id, [born |-> t, n |-> 1])
  ELSE [seen EXCEPT ![id].n = Min(@ + 1, MaxCap + 2)]

NoAfter == [deny |-> -1, reset |-> FALSE]

\* history: the outcome of this check replaces what was remembered for id; a
\* denial whose resetAt is NaN names no time and is not remembered
AfterCheck(l, id, t) ==
  [after EXCEPT ![id] =
     [deny |-> IF CheckResult(l, id, t).allowed \/ CheckResult(l, id, t).resetAt = NaN
               THEN -1
               ELSE CheckResult(l, id, t).resetAt,
      reset |-> FALSE]]

\* nothing was observed yet for a followed identifier
NoRefill == [last |-> -1, back |-> FALSE]

\* history: for a followed identifier, the lastRefill this check leaves in the
\* bucket, and whether the check created the bucket anew for an identifier
\* that was checked before
RefilledAfterCheck(l, id, t) ==
  IF id \in DOMAIN refilled
  THEN [refilled EXCEPT ![id] = [last |-> CheckBucket(l, id, t).lastRefill,
                                 back |-> ~HasBucket(l, id) /\ refilled[id].last >= 0]]
  ELSE refilled

\* history: an allowed check of a followed identifier is counted at its time
AdmittedAfterCheck(l, id, t) ==
  IF id \in DOMAIN admitted /\ CheckResult(l, id, t).allowed
  THEN [admitted EXCEPT ![id][t] = @ + 1]
  ELSE admitted

Check(l, id) ==
  /\ store' = StoreAfterCheck(l, id, now)
  /\ rlRet' = CheckResult(l, id, now)
  /\ seen' = SeenAfterCheck(id, now)
  /\ after' = AfterCheck(l, id, now)
  /\ admitted' = AdmittedAfterCheck(l, id, now)
  /\ refilled' = RefilledAfterCheck(l, id, now)
  /\ UNCHANGED <<now, maxRequests, windowMs, keyVars, cacheVars, routeVars, viewVars, auditVars>>

GetInfoResult(l, id, t) ==
  IF ~HasBucket(l, id)
  THEN [op |-> "getInfo", lim |-> l, id |-> id, allowed |-> FALSE,
        limit |-> maxRequests[l], remaining |-> maxRequests[l],
        resetAt |-> t + windowMs[l]]
  ELSE [op |-> "getInfo", lim |-> l, id |-> id, allowed |-> FALSE,
        limit |-> maxRequests[l], remaining |-> BucketOf(l, id).tokens,
        resetAt |-> ResetAt(l, BucketOf(l, id))]

GetInfo(l, id) ==
  /\ rlRet' = GetInfoResult(l, id, now)
  /\ UNCHANGED <<now, maxRequests, windowMs, store, seen, after, admitted, refilled, keyVars, cacheVars, routeVars, viewVars, auditVars>>

\* delete store[identifier]
StoreAfterReset(l, id) == Drop(store, {id})

Reset(l, id) ==
  /\ store' = StoreAfterReset(l, id)
  /\ seen' = Drop(seen, (DOMAIN seen) \ DOMAIN store')
  /\ after' = IF Stored(id) THEN [after EXCEPT ![id].reset = TRUE] ELSE after
  /\ UNCHANGED <<admitted, refilled>>
  /\ rlRet' = [NoRlRet EXCEPT !.op = "reset", !.lim = l, !.id = id]
  /\ UNCHANGED <<now, maxRequests, windowMs, keyVars, cacheVars, routeVars, viewVars, auditVars>>

\* variant: the sweep takes every bucket
StaleAny(l, t) == DOMAIN store

\* variant: a bucket goes after one idle window
StaleOneWindow(l, t) == {k \in DOMAIN store : t - store[k].lastRefill > windowMs[l]}

\* keys cleanup deletes: now - lastRefill > windowMs * 2
Stale(l, t) == {k \in DOMAIN store : t - store[k].lastRefill > windowMs[l] * 2}

Cleanup(l) ==
  /\ store' = Drop(store, Stale(l, now))
  /\ seen' = Drop(seen, Stale(l, now))
  /\ UNCHANGED <<after, admitted, refilled>>
  /\ rlRet' = [NoRlRet EXCEPT !.op = "cleanup", !.lim = l]
  /\ UNCHANGED <<now, maxRequests, windowMs, keyVars, cacheVars, routeVars, viewVars, auditVars>>

\* ---------------------------------------------------------- ApiKeyManager
Services == {"googleAi", "googleMaps"}
NullKey == "null"
KeyOf(s) == IF s = "googleAi" THEN "GOOGLE_AI_API_KEY" ELSE "GOOGLE_MAPS_API_KEY"

\* usageCount is followed up to MaxUsage
MaxUsage == MaxLimit + 1

NoStats == [count |-> 0, hasLimit |-> FALSE, limit |-> 0,
            hasRemaining |-> FALSE, remaining |-> 0]
NoKeyRet == [op |-> "none", svc |-> "none", key |-> NullKey,
             stats |-> [s \in Services |-> NoStats]]

\* the ApiKeyConfig initialize() builds; dailyLimit is optional
NewConfig(s, hasLimit, limit, t) ==
  [key |-> KeyOf(s), usageCount |-> 0, hasLimit |-> hasLimit,
   dailyLimit |-> limit, lastReset |-> t]

\* variant: the reset point compared with > instead of >=
RolloverDueLate(c, t) == t - c.lastReset > DayMs

\* hoursSinceReset >= 24
RolloverDue(c, t) == t - c.lastReset >= DayMs

\* variant: the counter is zeroed but lastReset is left alone
ResetKeepsLastReset(c, t) ==
  IF RolloverDue(c, t) THEN [c EXCEPT !.usageCount = 0] ELSE c

ResetIfNeeded(c, t) ==
  IF RolloverDue(c, t) THEN [c EXCEPT !.usageCount = 0, !.lastReset = t] ELSE c

\* variant: the limit compared with > instead of >=
LimitReachedLate(c) ==
  c.hasLimit /\ c.dailyLimit # 0 /\ c.usageCount > c.dailyLimit

\* config.dailyLimit && config.usageCount >= config.dailyLimit
LimitReached(c) ==
  c.hasLimit /\ c.dailyLimit # 0 /\ c.usageCount >= c.dailyLimit

\* variant: the daily limit is not looked at
CanUseKeyAlways(c) == TRUE

\* canUseKey on a non-null config, after its resetIfNeeded
CanUseKey(c) == ~LimitReached(c)

\* history: one more grant at the current time
Granted(s) == [recent EXCEPT ![s][DayMs] = @ + 1]

\* what getGoogleAiKey / getGoogleMapsKey returns at time t: the key or null
GrantKey(s, t) ==
  IF s \notin DOMAIN apiKeys THEN NullKey
  ELSE IF CanUseKey(ResetIfNeeded(apiKeys[s], t)) THEN apiKeys[s].key ELSE NullKey

\* variant: the key is handed out without being counted
KeysAfterGrantUncounted(s, t) ==
  IF s \notin DOMAIN apiKeys THEN apiKeys
  ELSE [apiKeys EXCEPT ![s] = ResetIfNeeded(apiKeys[s], t)]

\* variant: the counter is incremented before the limit is looked at
KeysAfterGrantCountsRefusals(s, t) ==
  IF s \notin DOMAIN apiKeys THEN apiKeys
  ELSE [apiKeys EXCEPT ![s] = [ResetIfNeeded(apiKeys[s], t) EXCEPT !.usageCount = @ + 1]]

\* the configurations after that call
KeysAfterGrant(s, t) ==
  IF s \notin DOMAIN apiKeys THEN apiKeys
  ELSE LET c == ResetIfNeeded(apiKeys[s], t)
       IN  IF CanUseKey(c)
           THEN [apiKeys EXCEPT ![s] = [c EXCEPT !.usageCount = @ + 1]]
           ELSE [apiKeys EXCEPT ![s] = c]

\* usageCount is followed up to MaxUsage
GrantBounded(s, t) ==
  s \in DOMAIN apiKeys =>
    (apiKeys[s].usageCount < MaxUsage \/ RolloverDue(apiKeys[s], t))

\* getGoogleAiKey / getGoogleMapsKey
Grant(s) ==
  /\ GrantBounded(s, now)
  /\ apiKeys' = KeysAfterGrant(s, now)
  /\ keyRet' = [NoKeyRet EXCEPT !.op = "grant", !.svc = s, !.key = GrantKey(s, now)]
  /\ recent' = IF GrantKey(s, now) # NullKey THEN Granted(s) ELSE recent
  /\ UNCHANGED <<now, rlVars, cacheVars, routeVars, viewVars, auditVars>>

\* one service's part of getUsageStats
UsageStats(s) ==
  IF s \notin DOMAIN apiKeys THEN NoStats
  ELSE LET c == apiKeys[s]
       IN  [count |-> c.usageCount, hasLimit |-> c.hasLimit,
            limit |-> IF c.hasLimit THEN c.dailyLimit ELSE 0,
            hasRemaining |-> c.hasLimit /\ c.dailyLimit # 0,
            remaining |-> IF c.hasLimit /\ c.dailyLimit # 0
                          THEN c.dailyLimit - c.usageCount ELSE 0]

GetUsageStats ==
  /\ keyRet' = [NoKeyRet EXCEPT !.op = "stats",
                                !.stats = [s \in Services |-> UsageStats(s)]]
  /\ UNCHANGED <<now, apiKeys, recent, rlVars, cacheVars, routeVars, viewVars, auditVars>>

\* history: the grant counts move d places towards the old end
Shift(d) ==
  [s \in Services |->
     [i \in 0..DayMs |-> IF i + d <= DayMs THEN recent[s][i + d] ELSE 0]]

\* grants of s in the closed interval [now - DayMs, now]
RECURSIVE SumTo(_, _)
SumTo(f, i) == IF i < 0 THEN 0 ELSE f[i] + SumTo(f, i - 1)
WindowGrants(s) == SumTo(recent[s], DayMs)

\* what initialize writes for a service whose key is set: usageCount 0 and a
\* daily limit that is always present and positive (the literals 1500 and
\* 10000, in model units one of 1..MaxLimit)
Configs(s) == {NewConfig(s, TRUE, n, 0) : n \in 1..MaxLimit}

\* ------------------------------------------------------------------ Cache
\* the default TTL of placesCache (one hour), in model ticks
defaultTTL == 2

Keys == {"k1", "k2"}
Values == {"a", "b"}
NullData == "null"

\* the ttl argument of set: omitted, or a number
Ttls == {[given |-> FALSE, ms |-> 0]} \cup {[given |-> TRUE, ms |-> n] : n \in 0..MaxTtl}

NoCacheRet == [op |-> "none", key |-> "none", data |-> NullData, ttl |-> [given |-> FALSE, ms |-> 0],
               found |-> FALSE, size |-> 0]

\* ttl || this.defaultTTL
EffectiveTtl(ttl) == IF ttl.given /\ ttl.ms # 0 THEN ttl.ms ELSE defaultTTL

\* the entry set stores
NewEntry(v, ttl, t) ==
  [data |-> v, timestamp |-> t, expiresAt |-> t + EffectiveTtl(ttl)]

\* variant: an entry that is still live is not overwritten
StoreKeepLive(k, e, t) ==
  IF k \in DOMAIN cache /\ t <= cache[k].expiresAt THEN cache ELSE Put(cache, k, e)

\* this.cache.set(key, entry)
Store(k, e, t) == Put(cache, k, e)

\* history: the set just made
LastSetAfter(k, v, ttl, t) ==
  Put(lastSet, k, [data |-> v, at |-> t, ttl |-> ttl,
                   prev |-> IF k \in DOMAIN lastSet
                            THEN lastSet[k].data ELSE NullData])

CacheSet(k, v, ttl) ==
  /\ cache' = Store(k, NewEntry(v, ttl, now), now)
  /\ lastSet' = LastSetAfter(k, v, ttl, now)
  /\ cacheRet' = [NoCacheRet EXCEPT !.op = "set", !.key = k, !.data = v, !.ttl = ttl]
  /\ UNCHANGED <<now, rlVars, keyVars, routeVars, viewVars, auditVars>>

\* variant: the entry is already gone at its expiry time
ExpiredEarly(e, t) == t >= e.expiresAt

\* now > entry.expiresAt
Expired(e, t) == t > e.expiresAt

\* variant: get never finds anything
GetDataMiss(k, t) == NullData

\* what get returns at time t: the data or null
GetData(k, t) ==
  IF k \notin DOMAIN cache THEN NullData
  ELSE IF Expired(cache[k], t) THEN NullData ELSE cache[k].data

\* variant: reading a live entry renews it
CacheAfterGetSliding(k, t) ==
  IF k \notin DOMAIN cache THEN cache
  ELSE IF Expired(cache[k], t) THEN Drop(cache, {k})
  ELSE [cache EXCEPT ![k].expiresAt = t + defaultTTL]

\* the store after get or has: an expired entry is deleted
CacheAfterGet(k, t) ==
  IF k \in DOMAIN cache /\ Expired(cache[k], t) THEN Drop(cache, {k}) ELSE cache

CacheGet(k) ==
  /\ cache' = CacheAfterGet(k, now)
  /\ cacheRet' = [NoCacheRet EXCEPT !.op = "get", !.key = k,
                                    !.found = (GetData(k, now) # NullData),
                                    !.data = GetData(k, now)]
  /\ UNCHANGED <<now, lastSet, rlVars, keyVars, routeVars, viewVars, auditVars>>

CacheHas(k) ==
  /\ cache' = CacheAfterGet(k, now)
  /\ cacheRet' = [NoCacheRet EXCEPT !.op = "has", !.key = k,
                                    !.found = (GetData(k, now) # NullData)]
  /\ UNCHANGED <<now, lastSet, rlVars, keyVars, routeVars, viewVars, auditVars>>

CacheDelete(k) ==
  /\ cache' = Drop(cache, {k})
  /\ lastSet' = Drop(lastSet, {k})
  /\ cacheRet' = [NoCacheRet EXCEPT !.op = "delete", !.key = k]
  /\ UNCHANGED <<now, rlVars, keyVars, routeVars, viewVars, auditVars>>

CacheClear ==
  /\ cache' = <<>>
  /\ lastSet' = <<>>
  /\ cacheRet' = [NoCacheRet EXCEPT !.op = "clear"]
  /\ UNCHANGED <<now, rlVars, keyVars, routeVars, viewVars, auditVars>>

\* variant: the sweep takes an entry at its expiry time already
ExpiredKeysEarly(t) == {k \in DOMAIN cache : t >= cache[k].expiresAt}

\* keys the sweep deletes
ExpiredKeys(t) == {k \in DOMAIN cache : Expired(cache[k], t)}

CacheCleanup ==
  /\ cache' = Drop(cache, ExpiredKeys(now))
  /\ cacheRet' = [NoCacheRet EXCEPT !.op = "cleanup"]
  /\ UNCHANGED <<now, lastSet, rlVars, keyVars, routeVars, viewVars, auditVars>>

CacheSize ==
  /\ cacheRet' = [NoCacheRet EXCEPT !.op = "size", !.size = Cardinality(DOMAIN cache)]
  /\ UNCHANGED <<now, cache, lastSet, rlVars, keyVars, routeVars, viewVars, auditVars>>

\* ----------------------------------------------------------------- routes
Reqs == {"r1"}

\* the limiter and the tracked service an endpoint uses
LimiterOf(ep) == IF ep = "chat" THEN "aiChat" ELSE "maps"
ServiceOf(ep) == IF ep = "chat" THEN "googleAi" ELSE "googleMaps"

\* a places search that found nothing: { places: [], usage }
EmptyResult == "empty"

\* the TTL the places handler passes for a non-empty result (3600000 ms, one
\* hour), in model ticks
PlacesTtl == 2

\* a handler that is not running; did collects what a running one has done
IdleReq == [ep |-> "none", pc |-> "idle", key |-> "none", did |-> {}]
NoResp == [ep |-> "none", status |-> 0, body |-> "none", cached |-> "absent",
           data |-> NullData, resetAt |-> -1, key |-> "none", did |-> {}]

\* a response of request q
Respond(q, status, body) ==
  [NoResp EXCEPT !.ep = q.ep, !.status = status, !.body = body, !.key = q.key,
                 !.did = q.did]

\* variant: a denial is answered as a server error
TooManyAsError(q, res) == Respond(q, 503, "Too many requests. Please try again later.")

\* the 429 of an endpoint; places and chat put resetAt in the body, photo in a
\* header, maps-key nowhere
TooMany(q, res) ==
  [Respond(q, 429, IF q.ep = "mapsKey" THEN "Too many requests."
                   ELSE "Too many requests. Please try again later.")
     EXCEPT !.resetAt = IF q.ep = "mapsKey" THEN -1 ELSE res.resetAt]

\* variant: the body tells a reached limit from a missing key
UnavailableByCause(q) ==
  Respond(q, 503,
          IF ServiceOf(q.ep) \in DOMAIN apiKeys
          THEN "Service quota exceeded. Please try again later."
          ELSE "Service not configured.")

\* the 503 of an endpoint whose key was refused
Unavailable(q) ==
  Respond(q, 503,
          CASE q.ep = "places" -> "Maps service temporarily unavailable. Please try again later."
            [] q.ep = "chat" -> "AI service temporarily unavailable. Please try again later."
            [] q.ep = "photo" -> "Maps service unavailable"
            [] OTHER -> "Maps service not available.")

\* variant: the flag is ignored and every endpoint checks
ChecksAlways(ep) == TRUE

\* variant: no endpoint checks
ChecksNever(ep) == FALSE

\* places and chat check the limiter only if ENABLE_RATE_LIMITING is 'true';
\* place-photo and maps-key always do
Checks(ep) == ep \in {"photo", "mapsKey"} \/ enableRateLimiting

\* variant: a denied request goes on
AdmittedAlways(ep, id) == TRUE

\* the request goes on past the rate limiting step
Admitted(ep, id) == Checks(ep) => CheckResult(LimiterOf(ep), id, now).allowed

\* the rate limiting step of a handler for identifier id
RateLimitStep(ep, id) ==
  /\ store' = IF Checks(ep) THEN StoreAfterCheck(LimiterOf(ep), id, now)
              ELSE store
  /\ rlRet' = IF Checks(ep) THEN CheckResult(LimiterOf(ep), id, now) ELSE NoRlRet

\* what the request has done once the rate limiting step is over
DidCheck(ep, id) ==
  IF ~Checks(ep) THEN {}
  ELSE IF CheckResult(LimiterOf(ep), id, now).allowed THEN {"check", "token"}
  ELSE {"check"}

\* the key request of a handler: getGoogleAiKey / getGoogleMapsKey when asks
KeyStep(s, asks) ==
  /\ asks => GrantBounded(s, now)
  /\ apiKeys' = IF asks THEN KeysAfterGrant(s, now) ELSE apiKeys
  /\ keyRet' = IF asks
               THEN [NoKeyRet EXCEPT !.op = "grant", !.svc = s, !.key = GrantKey(s, now)]
               ELSE NoKeyRet

\* variant: the request goes to the external call whatever the key request returned
AfterGrantAlways(q, s) ==
  [q EXCEPT !.pc = "fetch", !.did = @ \cup {"grant", "granted", "fetch"}]

\* the request after its key request
AfterGrant(q, s) ==
  IF GrantKey(s, now) = NullKey THEN [q EXCEPT !.did = @ \cup {"grant"}]
  ELSE [q EXCEPT !.pc = "fetch", !.did = @ \cup {"grant", "granted", "fetch"}]

\* POST /api/places and POST /api/chat up to `await req.json()`
Start(r, ep, id) ==
  LET q == [IdleReq EXCEPT !.ep = ep, !.did = DidCheck(ep, id)] IN
  /\ ep \in {"places", "chat"}
  /\ reqs[r].pc = "idle"
  /\ RateLimitStep(ep, id)
  /\ resp' = IF Admitted(ep, id) THEN NoResp
             ELSE TooMany(q, CheckResult(LimiterOf(ep), id, now))
  /\ reqs' = IF Admitted(ep, id) THEN [reqs EXCEPT ![r] = [q EXCEPT !.pc = "parse"]]
             ELSE reqs
  /\ keyRet' = NoKeyRet
  /\ cacheRet' = NoCacheRet
  /\ UNCHANGED <<now, maxRequests, windowMs, seen, after, admitted, refilled, apiKeys, recent, cache, lastSet,
                 enableRateLimiting, viewVars, auditVars>>

\* variant: the handler goes on to the cache and the key before it validates
PassesUnvalidated(bodyOk, validation) == bodyOk

\* the handler goes on past validation: the body was parsed and the validator
\* (validateLocationQuery; validateMessage and validateHistory) found it valid
PassesValidation(bodyOk, validation) == bodyOk /\ validation = "valid"

\* what `await req.json()` and the validation give: the parsed body ("ok"), or
\* an error whose message is of one of the kinds the catch of the chat handler
\* tells apart (the message of a SyntaxError quotes the text of the body; a
\* null body or a null element of the history gives a TypeError)
Bodies == {"ok", "quota", "API key", "other"}

\* the location of a places body: absent, a string, or another value whose
\* string form does not look like coordinates ("plain"); or a value that is
\* not a string and whose string form does, as the array ["1,2"]
Locations == {"plain", "array"}

\* location.split(',') throws a TypeError: isCoordinates is true, because
\* RegExp.test matches the string form, and location has no split method
SplitThrows(location) == location = "array"

\* POST /api/places from the parsed body to `await fetch(...)`: body parsing
\* (a throw goes to the catch), validation, cache lookup, key request and the
\* building of the request body (a throw goes to the catch)
PlacesParsed(r, body, validation, location, k) ==
  LET q == [reqs[r] EXCEPT !.key = k]
      bodyOk == body = "ok"
      looks == PassesValidation(bodyOk, validation)
      hit == looks /\ GetData(k, now) # NullData
      asks == looks /\ ~hit
      got == [q EXCEPT !.did = @ \cup {"get"}]
      calls == asks /\ GrantKey("googleMaps", now) # NullKey /\ ~SplitThrows(location)
  IN
  /\ reqs[r].ep = "places" /\ reqs[r].pc = "parse"
  /\ cache' = IF looks THEN CacheAfterGet(k, now) ELSE cache
  /\ cacheRet' = IF looks
                 THEN [NoCacheRet EXCEPT !.op = "get", !.key = k, !.found = hit,
                                         !.data = GetData(k, now)]
                 ELSE NoCacheRet
  /\ KeyStep("googleMaps", asks)
  /\ resp' = IF ~bodyOk THEN Respond(q, 500, "An error occurred while searching places.")
             ELSE IF validation # "valid" THEN Respond(q, 400, validation)
             ELSE IF hit THEN [Respond(got, 200, "ok") EXCEPT !.cached = "true",
                                                              !.data = GetData(k, now)]
             ELSE IF GrantKey("googleMaps", now) = NullKey
                  THEN Unavailable(AfterGrant(got, "googleMaps"))
             ELSE IF SplitThrows(location)
                  THEN Respond([got EXCEPT !.did = @ \cup {"grant", "granted"}], 500,
                               "An error occurred while searching places.")
             ELSE NoResp
  /\ reqs' = IF calls
             THEN [reqs EXCEPT ![r] = AfterGrant(got, "googleMaps")]
             ELSE [reqs EXCEPT ![r] = IdleReq]
  /\ rlRet' = NoRlRet
  /\ UNCHANGED <<now, maxRequests, windowMs, store, seen, after, admitted, refilled, recent, lastSet,
                 enableRateLimiting, viewVars, auditVars>>

\* variant: whatever the Places API answered is put in the cache
StoresAlways(outcome) == TRUE

\* the handler reaches placesCache.set: the Places API answered ok and its
\* body was read; otherwise the throw goes to the catch
Stores(outcome) == outcome # "fail"

\* POST /api/places from the answer of the Places API to the response
PlacesFetched(r, outcome) ==
  LET q == reqs[r]
      ttl == IF outcome = EmptyResult THEN [given |-> FALSE, ms |-> 0]
             ELSE [given |-> TRUE, ms |-> PlacesTtl]
      put == [q EXCEPT !.did = @ \cup {"set"}]
  IN
  /\ q.ep = "places" /\ q.pc = "fetch"
  /\ reqs' = [reqs EXCEPT ![r] = IdleReq]
  /\ cache' = IF Stores(outcome) THEN Store(q.key, NewEntry(outcome, ttl, now), now)
              ELSE cache
  /\ cacheRet' = IF ~Stores(outcome) THEN NoCacheRet
                 ELSE [NoCacheRet EXCEPT !.op = "set", !.key = q.key, !.data = outcome,
                                         !.ttl = ttl]
  /\ resp' = IF outcome = "fail"
             THEN Respond(q, 500, "An error occurred while searching places.")
             ELSE IF outcome = EmptyResult
             THEN [Respond(put, 200, "ok") EXCEPT !.data = EmptyResult]
             ELSE [Respond(put, 200, "ok") EXCEPT !.cached = "false", !.data = outcome]
  /\ rlRet' = NoRlRet
  /\ keyRet' = NoKeyRet
  /\ UNCHANGED <<now, maxRequests, windowMs, store, seen, after, admitted, refilled, apiKeys, recent, lastSet,
                 enableRateLimiting, viewVars, auditVars>>

\* the catch of the chat handler: the response is chosen by what the message
\* of the error contains, 'quota' first
ChatError(q, message) ==
  CASE message = "quota" ->
         Respond(q, 503, "Service quota exceeded. Please try again later.")
    [] message = "API key" -> Respond(q, 500, "Service configuration error.")
    [] OTHER -> Respond(q, 500, "An error occurred while processing your request.")

\* POST /api/chat from the parsed body to `await chat.sendMessage(...)`: body
\* parsing and validation (a throw goes to the catch), key request, and the
\* construction of the chat session from the history, which the SDK may
\* refuse with an error (started is "ok" or the kind of its message)
ChatParsed(r, body, validation, started) ==
  LET q == reqs[r]
      bodyOk == body = "ok"
      asks == PassesValidation(bodyOk, validation)
  IN
  /\ q.ep = "chat" /\ q.pc = "parse"
  /\ KeyStep("googleAi", asks)
  /\ resp' = IF ~bodyOk THEN ChatError(q, body)
             ELSE IF validation # "valid" THEN Respond(q, 400, validation)
             ELSE IF GrantKey("googleAi", now) = NullKey
                  THEN Unavailable(AfterGrant(q, "googleAi"))
             ELSE IF started # "ok"
                  THEN ChatError([q EXCEPT !.did = @ \cup {"grant", "granted"}], started)
             ELSE NoResp
  /\ reqs' = IF asks /\ GrantKey("googleAi", now) # NullKey /\ started = "ok"
             THEN [reqs EXCEPT ![r] = AfterGrant(q, "googleAi")]
             ELSE [reqs EXCEPT ![r] = IdleReq]
  /\ rlRet' = NoRlRet
  /\ cacheRet' = NoCacheRet
  /\ UNCHANGED <<now, maxRequests, windowMs, store, seen, after, admitted, refilled, recent, cache, lastSet,
                 enableRateLimiting, viewVars, auditVars>>

\* POST /api/chat from the answer of the model to the response
ChatReplied(r, outcome) ==
  LET q == reqs[r] IN
  /\ q.ep = "chat" /\ q.pc = "fetch"
  /\ reqs' = [reqs EXCEPT ![r] = IdleReq]
  /\ resp' = IF outcome = "ok" THEN Respond(q, 200, "ok") ELSE ChatError(q, outcome)
  /\ rlRet' = NoRlRet
  /\ keyRet' = NoKeyRet
  /\ cacheRet' = NoCacheRet
  /\ UNCHANGED <<now, maxRequests, windowMs, store, seen, after, admitted, refilled, apiKeys, recent, cache,
                 lastSet, enableRateLimiting, viewVars, auditVars>>

\* GET /api/place-photo up to `await fetch(...)`
PhotoStart(r, id, hasRef) ==
  LET q == [IdleReq EXCEPT !.ep = "photo", !.did = DidCheck("photo", id)]
      asks == Admitted("photo", id) /\ hasRef
  IN
  /\ reqs[r].pc = "idle"
  /\ RateLimitStep("photo", id)
  /\ KeyStep("googleMaps", asks)
  /\ resp' = IF ~Admitted("photo", id) THEN TooMany(q, CheckResult("maps", id, now))
             ELSE IF ~hasRef THEN Respond(q, 400, "Missing photo reference")
             ELSE IF GrantKey("googleMaps", now) = NullKey
                  THEN Unavailable(AfterGrant(q, "googleMaps"))
             ELSE NoResp
  /\ reqs' = IF asks /\ GrantKey("googleMaps", now) # NullKey
             THEN [reqs EXCEPT ![r] = AfterGrant(q, "googleMaps")]
             ELSE reqs
  /\ cacheRet' = NoCacheRet
  /\ UNCHANGED <<now, maxRequests, windowMs, seen, after, admitted, refilled, recent, cache, lastSet,
                 enableRateLimiting, viewVars, auditVars>>

\* the statuses the photo upstream answers with when it refuses
UpstreamErrors == {404, 500}

\* GET /api/place-photo from the answer of the photo upstream to the response
PhotoFetched(r, outcome, status) ==
  LET q == reqs[r] IN
  /\ q.ep = "photo" /\ q.pc = "fetch"
  /\ reqs' = [reqs EXCEPT ![r] = IdleReq]
  /\ resp' = CASE outcome = "ok" -> Respond(q, 200, "ok")
               [] outcome = "notOk" -> Respond(q, status, "Failed to fetch photo")
               [] OTHER -> Respond(q, 500, "Internal server error")
  /\ rlRet' = NoRlRet
  /\ keyRet' = NoKeyRet
  /\ cacheRet' = NoCacheRet
  /\ UNCHANGED <<now, maxRequests, windowMs, store, seen, after, admitted, refilled, apiKeys, recent, cache,
                 lastSet, enableRateLimiting, viewVars, auditVars>>

\* GET /api/maps-key: the key comes from the environment, not from the manager
MapsKey(id) ==
  LET q == [IdleReq EXCEPT !.ep = "mapsKey", !.did = DidCheck("mapsKey", id)] IN
  /\ RateLimitStep("mapsKey", id)
  /\ resp' = IF ~Admitted("mapsKey", id) THEN TooMany(q, CheckResult("maps", id, now))
             ELSE IF "googleMaps" \notin DOMAIN apiKeys THEN Unavailable(q)
             ELSE [Respond(q, 200, "ok") EXCEPT !.data = apiKeys["googleMaps"].key]
  /\ keyRet' = NoKeyRet
  /\ cacheRet' = NoCacheRet
  /\ UNCHANGED <<now, maxRequests, windowMs, seen, after, admitted, refilled, apiKeys, recent, cache, lastSet,
                 enableRateLimiting, reqs, viewVars, auditVars>>

\* the five-minute timer: aiChatLimiter.cleanup(); mapsLimiter.cleanup()
LimiterTimer ==
  /\ store' = Drop(store, Stale("aiChat", now) \cup Stale("maps", now))
  /\ rlRet' = [NoRlRet EXCEPT !.op = "cleanup"]
  /\ keyRet' = NoKeyRet
  /\ cacheRet' = NoCacheRet
  /\ resp' = NoResp
  /\ UNCHANGED <<now, maxRequests, windowMs, seen, after, admitted, refilled, apiKeys, recent, cache, lastSet,
                 enableRateLimiting, reqs, viewVars, auditVars>>

\* the ten-minute timer: placesCache.cleanup() (geocodeCache is never written)
CacheTimer ==
  /\ cache' = Drop(cache, ExpiredKeys(now))
  /\ cacheRet' = [NoCacheRet EXCEPT !.op = "cleanup"]
  /\ rlRet' = NoRlRet
  /\ keyRet' = NoKeyRet
  /\ resp' = NoResp
  /\ UNCHANGED <<now, maxRequests, windowMs, store, seen, after, admitted, refilled, apiKeys, recent, lastSet,
                 enableRateLimiting, reqs, viewVars, auditVars>>

\* --------------------------------------------------------- map components
\* MapDisplay; MapPreview has the same state, the same setMapRef and the same
\* markers, and no places list.  Place i of the places prop is written i, and
\* places[i] tells whether its coordinates pass the filter of the marker
\* effect; a marker is written as the place it was created for.
PlaceLists == UNION {[1..n -> BOOLEAN] : n \in 0..MaxPlaces}

\* the marker of the user's location, and the undefined a click can find
UserMarker == 0
NoMarker == -1

\* what useState holds at the first render
InitialState ==
  [map |-> FALSE, markers |-> <<>>, directionsRenderer |-> FALSE,
   isLoading |-> TRUE, error |-> "null"]

\* the component when it is first rendered.  state is what useState holds
\* (setMap, setMarkers, setDirectionsRenderer, setIsLoading and setError
\* write it); map, markers, directionsRenderer, isLoading, error, places and
\* userLocation are the values of the last render, the ones its setMapRef,
\* its marker effect and its onClick handlers read; the refs are read and
\* written at once.  committed tells whether a render was committed and
\* effectDue whether the marker effect of the last commit has yet to run; pc is
\* where the asynchronous initialization is suspended, starts how often it was
\* started (followed up to 2), skipped whether setMapRef has returned early
\* for an attached element, index and clicked the list entry last clicked and
\* the marker whose click handler that ran
Mounted(places, userLocation) ==
  [map |-> FALSE, markers |-> <<>>, directionsRenderer |-> FALSE,
   isLoading |-> TRUE, error |-> "null",
   state |-> InitialState, committed |-> FALSE, effectDue |-> FALSE,
   isInitializing |-> FALSE, googleMapsLoaded |-> FALSE, hasInitialized |-> FALSE,
   mapContainerRef |-> FALSE,
   places |-> places, userLocation |-> userLocation,
   pc |-> "none", starts |-> 0, skipped |-> FALSE, index |-> 0, clicked |-> NoMarker]

\* no map component is mounted
Unmounted == [Mounted(<<>>, FALSE) EXCEPT !.pc = "unmounted"]

\* validPlaces: the places whose coordinates pass the filter, in list order
ValidPlaces(places) ==
  SelectSeq([i \in 1..Len(places) |-> i], LAMBDA i : places[i])

\* what the marker effect passes to setMarkers: nothing when no place is
\* valid, else the user marker, if there is a user location, and then the
\* markers of the valid places
MarkersFor(places, userLocation) ==
  IF Len(ValidPlaces(places)) = 0 THEN <<>>
  ELSE (IF userLocation THEN <<UserMarker>> ELSE <<>>) \o ValidPlaces(places)

\* if (!element || map || isInitializing.current || hasInitialized.current) return
\* (map is the one of the render that made the callback)
Skips(v, element) ==
  ~element \/ v.map \/ v.isInitializing \/ v.hasInitialized

\* the container ref callback of render v, up to the first await of the
\* initialization it starts
SetMapRef(v, element) ==
  IF Skips(v, element)
  THEN [v EXCEPT !.skipped = @ \/ element]
  ELSE [v EXCEPT !.mapContainerRef = TRUE, !.isInitializing = TRUE,
                 !.hasInitialized = TRUE, !.pc = "fetch",
                 !.starts = Min(@ + 1, 2)]

\* a render with the given props and its commit: the render reads the state;
\* the commit calls the ref callback of the render before with null, when
\* that one showed the container (a call with null returns at once), and the
\* new one with the element, when this one shows it (no error).  The marker
\* effect is due after the first commit and when one of its dependencies
\* [map, places, userLocation] is not the same object as in the render before
\* (Object.is); fresh tells that for the props: the places array or the
\* userLocation object is a new one, whatever its values
Commit(v, places, userLocation, fresh) ==
  LET due == ~v.committed \/ v.state.map # v.map \/ fresh
      c == [v EXCEPT !.map = v.state.map, !.markers = v.state.markers,
                     !.directionsRenderer = v.state.directionsRenderer,
                     !.isLoading = v.state.isLoading, !.error = v.state.error,
                     !.places = places, !.userLocation = userLocation,
                     !.committed = TRUE, !.effectDue = due]
      detached == IF v.committed /\ v.error = "null"
                  THEN SetMapRef(c, FALSE)
                  ELSE c
  IN  IF c.error = "null" THEN SetMapRef(detached, TRUE) ELSE detached

\* the component renders again with the very props it has (the same array,
\* the same object or null): after a change of its state, or because its
\* parent renders and passes them again; React runs the effects of the last
\* commit before it renders
Rendered ==
  /\ view.pc # "unmounted" /\ ~view.effectDue
  /\ view' = Commit(view, view.places, view.userLocation, FALSE)
  /\ UNCHANGED <<now, rlVars, keyVars, cacheVars, routeVars, auditVars>>

\* the parent renders and passes a new places array or a new userLocation
\* object (it builds one at every render when the location is known), with
\* the values of the ones before or with others
PropsChanged(places, userLocation) ==
  /\ view.pc # "unmounted" /\ view.committed /\ ~view.effectDue
  /\ view' = Commit(view, places, userLocation, TRUE)
  /\ UNCHANGED <<now, rlVars, keyVars, cacheVars, routeVars, auditVars>>

\* the marker effect of the last commit, with the map, places and
\* userLocation of that render: it returns when the map is not set, else it
\* calls setMarkers
MarkerEffect ==
  /\ view.pc # "unmounted" /\ view.effectDue
  /\ view' = [view EXCEPT !.effectDue = FALSE,
                          !.state.markers = IF view.map
                                            THEN MarkersFor(view.places, view.userLocation)
                                            ELSE @]
  /\ UNCHANGED <<now, rlVars, keyVars, cacheVars, routeVars, auditVars>>

\* messages of the errors the awaited calls can throw; the empty one is
\* replaced by the default in the catch
Messages == {"", "Failed to fetch"}

\* the catch and the finally of the initialization
Failed(v, message) ==
  [v EXCEPT !.state.error = IF message = "" THEN "Failed to load map" ELSE message,
            !.state.isLoading = FALSE, !.isInitializing = FALSE, !.pc = "ended"]

\* what the two constructors of the try do: both return ("ok"), new
\* google.maps.Map throws ("map"), or new google.maps.DirectionsRenderer
\* throws ("renderer")
Builds == {"ok", "map", "renderer"}

\* from the container test to the end of the try, the catch and the finally:
\* setMap comes between the two constructors, so a throw of the second one
\* reaches the catch with the map already set
Constructed(v, built, message) ==
  IF ~v.mapContainerRef
  THEN Failed(v, "Map container was removed during initialization")
  ELSE CASE built = "map" -> Failed(v, message)
         [] built = "renderer" -> [Failed(v, message) EXCEPT !.state.map = TRUE]
         [] OTHER -> [v EXCEPT !.state.map = TRUE, !.state.directionsRenderer = TRUE,
                               !.state.isLoading = FALSE, !.isInitializing = FALSE,
                               !.pc = "ended"]

\* await fetch('/api/maps-key') returns or throws
KeyFetched(outcome, message) ==
  /\ view.pc = "fetch"
  /\ view' = CASE outcome = "ok" -> [view EXCEPT !.pc = "json"]
                [] outcome = "notOk" -> Failed(view, "Failed to load map API key")
                [] OTHER -> Failed(view, message)
  /\ UNCHANGED <<now, rlVars, keyVars, cacheVars, routeVars, auditVars>>

\* await response.json() returns or throws
KeyParsed(ok, message, built) ==
  /\ view.pc = "json"
  /\ view' = IF ~ok THEN Failed(view, message)
             ELSE IF view.googleMapsLoaded THEN Constructed(view, built, message)
             ELSE [view EXCEPT !.pc = "load"]
  /\ UNCHANGED <<now, rlVars, keyVars, cacheVars, routeVars, auditVars>>

\* await loader.load() returns or throws
SdkLoaded(ok, message, built) ==
  /\ view.pc = "load"
  /\ view' = IF ~ok THEN Failed(view, message)
             ELSE Constructed([view EXCEPT !.googleMapsLoaded = TRUE], built, message)
  /\ UNCHANGED <<now, rlVars, keyVars, cacheVars, routeVars, auditVars>>

\* markers[index + 1] for the list entry of place i, whose index is i - 1
ClickTarget(markers, i) ==
  IF i + 1 \in DOMAIN markers THEN markers[i + 1] ELSE NoMarker

\* onClick of the list entry of place i, of the last render (the list is
\* shown when that render had no error)
ClickPlace(i) ==
  /\ view.pc # "unmounted" /\ view.committed /\ view.error = "null"
  /\ i \in DOMAIN view.places
  /\ view' = [view EXCEPT !.index = i,
                          !.clicked = IF view.map THEN ClickTarget(view.markers, i)
                                      ELSE NoMarker]
  /\ UNCHANGED <<now, rlVars, keyVars, cacheVars, routeVars, auditVars>>

\* ------------------------------------------------------------ AuditLogger
\* AuditLogger.maxLogs (1000), in model entries
maxLogs == 2

\* the levels and client identifiers of the entries that are followed
Levels == {"INFO", "SECURITY"}
NoFilter == "undefined"
LogClients == {"A", NoFilter}

\* nothing was returned yet
NoLogs == [op |-> "none", list |-> <<>>, shared |-> FALSE]

\* createEntry: n, the number of the log call, stands for timestamp, event
\* and details
Entry(n, level, clientId) == [n |-> n, level |-> level, clientId |-> clientId]

\* variant: the newest entry is dropped when the log is full
LogsAfterLogKeepOldest(entry) ==
  IF Len(logs) + 1 > maxLogs THEN logs ELSE Append(logs, entry)

\* this.logs.push(entry); if (this.logs.length > this.maxLogs) this.logs.shift()
LogsAfterLog(entry) ==
  IF Len(logs) + 1 > maxLogs THEN Tail(Append(logs, entry)) ELSE Append(logs, entry)

\* log, and through it info, warn, error and security
Log(level, clientId) ==
  /\ logged < MaxCalls
  /\ logged' = logged + 1
  /\ logs' = IF enabled THEN LogsAfterLog(Entry(logged + 1, level, clientId)) ELSE logs
  /\ UNCHANGED <<enabled, logsRet>>
  /\ UNCHANGED <<now, rlVars, keyVars, cacheVars, routeVars, viewVars>>

\* filtered.slice(-limit)
LastOf(q, limit) ==
  SubSeq(q, IF Len(q) > limit THEN Len(q) - limit + 1 ELSE 1, Len(q))

\* what getLogs returns; an absent or zero limit does not slice
GetLogsResult(level, clientId, limit) ==
  LET byLevel == IF level # NoFilter THEN SelectSeq(logs, LAMBDA e : e.level = level)
                 ELSE logs
      byClient == IF clientId # NoFilter
                  THEN SelectSeq(byLevel, LAMBDA e : e.clientId = clientId)
                  ELSE byLevel
  IN  IF limit # 0 THEN LastOf(byClient, limit) ELSE byClient

\* variant: without filters the stored array itself is returned
SharedWhenUnfiltered(level, clientId, limit) ==
  level = NoFilter /\ clientId = NoFilter /\ limit = 0

\* whether the returned array is the stored one: never, `[...this.logs]`,
\* filter and slice each make a new array
Shared(level, clientId, limit) == FALSE

GetLogs(level, clientId, limit) ==
  /\ logsRet' = [op |-> "getLogs", list |-> GetLogsResult(level, clientId, limit),
                 shared |-> Shared(level, clientId, limit)]
  /\ UNCHANGED <<enabled, logs, logged>>
  /\ UNCHANGED <<now, rlVars, keyVars, cacheVars, routeVars, viewVars>>

\* clear
Clear ==
  /\ logs' = <<>>
  /\ logged' = 0
  /\ UNCHANGED <<enabled, logsRet>>
  /\ UNCHANGED <<now, rlVars, keyVars, cacheVars, routeVars, viewVars>>

\* the caller of getLogs removes the last element of the array it was given;
\* that changes the stored log only if the two are one array
CallerPops ==
  /\ logsRet.op # "none" /\ Len(logsRet.list) > 0
  /\ logsRet' = [logsRet EXCEPT !.op = "popped", !.list = SubSeq(@, 1, Len(@) - 1)]
  /\ logs' = IF logsRet.shared THEN SubSeq(logs, 1, Len(logs) - 1) ELSE logs
  /\ UNCHANGED <<enabled, logged>>
  /\ UNCHANGED <<now, rlVars, keyVars, cacheVars, routeVars, viewVars>>

\* ------------------------------------------------------------------ clock
Tick ==
  /\ \E d \in 1..MaxStep : now + d <= MaxTime /\ now' = now + d
                            /\ recent' = Shift(d)
  /\ rlRet' = NoRlRet
  /\ keyRet' = NoKeyRet
  /\ cacheRet' = NoCacheRet
  /\ resp' = NoResp
  /\ UNCHANGED <<maxRequests, windowMs, store, seen, after, admitted, refilled, apiKeys, cache, lastSet,
               enableRateLimiting, reqs, viewVars, auditVars>>

NextRL ==
  \/ Tick
  \/ \E l \in Limiters, id \in Ids : Check(l, id)
  \/ \E l \in Limiters, id \in Ids : GetInfo(l, id)
  \/ \E l \in Limiters, id \in Ids : Reset(l, id)
  \/ \E l \in Limiters : Cleanup(l)

\* the public methods called with any string: an identifier as above and one
\* that names an inherited property
Names == {"A"} \cup Inherited

NextNames ==
  \/ Tick
  \/ \E l \in Limiters, id \in Names : Check(l, id)
  \/ \E l \in Limiters, id \in Names : GetInfo(l, id)
  \/ \E l \in Limiters, id \in Names : Reset(l, id)
  \/ \E l \in Limiters : Cleanup(l)

NextKeys ==
  \/ Tick
  \/ \E s \in Services : Grant(s)
  \/ GetUsageStats

NextCache ==
  \/ Tick
  \/ \E k \in Keys, v \in Values, ttl \in Ttls : CacheSet(k, v, ttl)
  \/ \E k \in Keys : CacheGet(k)
  \/ \E k \in Keys : CacheHas(k)
  \/ \E k \in Keys : CacheDelete(k)
  \/ CacheClear
  \/ CacheCleanup
  \/ CacheSize

\* the client whose requests are followed, and the cache key of its places
\* query (`places:${query}:${location || ''}:${type}`)
Clients == {"A"}
Queries == {"k1"}

\* the validation outcomes of a body: valid, or the error the validator reports
Validations == {"valid", "validation.error"}

Next ==
  \/ Tick
  \/ \E r \in DOMAIN reqs, ep \in {"places", "chat"}, id \in Clients : Start(r, ep, id)
  \/ \E r \in DOMAIN reqs, body \in Bodies, v \in Validations, loc \in Locations,
          k \in Queries :
       PlacesParsed(r, body, v, loc, k)
  \/ \E r \in DOMAIN reqs, o \in {"fail", EmptyResult, "a"} : PlacesFetched(r, o)
  \/ \E r \in DOMAIN reqs, body \in Bodies, v \in Validations, st \in Bodies :
          ChatParsed(r, body, v, st)
  \/ \E r \in DOMAIN reqs, o \in {"ok", "quota", "API key", "other"} : ChatReplied(r, o)
  \/ \E r \in DOMAIN reqs, id \in Clients, hasRef \in BOOLEAN : PhotoStart(r, id, hasRef)
  \/ \E r \in DOMAIN reqs, o \in {"ok", "notOk", "throw"}, st \in UpstreamErrors :
       PhotoFetched(r, o, st)
  \/ \E id \in Clients : MapsKey(id)
  \/ LimiterTimer
  \/ CacheTimer

vars == <<now, maxRequests, windowMs, store, rlRet, seen, after, apiKeys, keyRet, recent,
          cache, cacheRet, lastSet, enableRateLimiting, reqs, resp, admitted, refilled, view,
          enabled, logs, logsRet, logged>>

\* the rate limiter alone: both exported limiters are built from the same two
\* environment values; no key is configured and the cache stays empty
InitRL ==
  /\ now = 0
  /\ \E c \in 1..MaxCap : maxRequests = [l \in Limiters |-> c]
  /\ \E w \in 1..MaxWindow : windowMs = [l \in Limiters |-> w]
  /\ store = <<>>
  /\ seen = <<>>
  /\ after = [id \in Ids |-> NoAfter]
  /\ rlRet = NoRlRet
  /\ apiKeys = <<>>
  /\ keyRet = NoKeyRet
  /\ recent = [s \in Services |-> [i \in 0..DayMs |-> 0]]
  /\ cache = <<>>
  /\ lastSet = <<>>
  /\ cacheRet = NoCacheRet
  /\ enableRateLimiting = TRUE
  /\ reqs = [r \in Reqs |-> IdleReq]
  /\ resp = NoResp
  /\ admitted = <<>>
  /\ refilled = <<>>
  /\ view = Unmounted
  /\ enabled = FALSE
  /\ logs = <<>>
  /\ logsRet = NoLogs
  /\ logged = 0

SpecRL == InitRL /\ [][NextRL]_vars

\* the rate limiter alone, called with any string
InitNames ==
  /\ now = 0
  /\ \E c \in 1..MaxCap : maxRequests = [l \in Limiters |-> c]
  /\ \E w \in 1..MaxWindow : windowMs = [l \in Limiters |-> w]
  /\ store = <<>>
  /\ seen = <<>>
  /\ after = [id \in Names |-> NoAfter]
  /\ rlRet = NoRlRet
  /\ apiKeys = <<>>
  /\ keyRet = NoKeyRet
  /\ recent = [s \in Services |-> [i \in 0..DayMs |-> 0]]
  /\ cache = <<>>
  /\ lastSet = <<>>
  /\ cacheRet = NoCacheRet
  /\ enableRateLimiting = TRUE
  /\ reqs = [r \in Reqs |-> IdleReq]
  /\ resp = NoResp
  /\ admitted = <<>>
  /\ refilled = <<>>
  /\ view = Unmounted
  /\ enabled = FALSE
  /\ logs = <<>>
  /\ logsRet = NoLogs
  /\ logged = 0

SpecNames == InitNames /\ [][NextNames]_vars

\* the key manager alone: every service is unconfigured (key missing) or
\* configured as initialize does, with a daily limit of 1..MaxLimit
InitKeys ==
  /\ now = 0
  /\ maxRequests = [l \in Limiters |-> 1]
  /\ windowMs = [l \in Limiters |-> 1]
  /\ store = <<>>
  /\ seen = <<>>
  /\ after = [id \in Ids |-> NoAfter]
  /\ rlRet = NoRlRet
  /\ \E S \in SUBSET Services :
       apiKeys \in {f \in [S -> UNION {Configs(s) : s \in S}] :
                      \A s \in S : f[s] \in Configs(s)}
  /\ keyRet = NoKeyRet
  /\ recent = [s \in Services |-> [i \in 0..DayMs |-> 0]]
  /\ cache = <<>>
  /\ lastSet = <<>>
  /\ cacheRet = NoCacheRet
  /\ enableRateLimiting = TRUE
  /\ reqs = [r \in Reqs |-> IdleReq]
  /\ resp = NoResp
  /\ admitted = <<>>
  /\ refilled = <<>>
  /\ view = Unmounted
  /\ enabled = FALSE
  /\ logs = <<>>
  /\ logsRet = NoLogs
  /\ logged = 0

SpecKeys == InitKeys /\ [][NextKeys]_vars

\* placesCache = new Cache(3600000) alone
InitCache ==
  /\ now = 0
  /\ maxRequests = [l \in Limiters |-> 1]
  /\ windowMs = [l \in Limiters |-> 1]
  /\ store = <<>>
  /\ seen = <<>>
  /\ after = [id \in Ids |-> NoAfter]
  /\ rlRet = NoRlRet
  /\ apiKeys = <<>>
  /\ keyRet = NoKeyRet
  /\ recent = [s \in Services |-> [i \in 0..DayMs |-> 0]]
  /\ cache = <<>>
  /\ lastSet = <<>>
  /\ cacheRet = NoCacheRet
  /\ enableRateLimiting = TRUE
  /\ reqs = [r \in Reqs |-> IdleReq]
  /\ resp = NoResp
  /\ admitted = <<>>
  /\ refilled = <<>>
  /\ view = Unmounted
  /\ enabled = FALSE
  /\ logs = <<>>
  /\ logsRet = NoLogs
  /\ logged = 0

SpecCache == InitCache /\ [][NextCache]_vars

\* initialize() gives every configured service a daily limit (1500 and 10000
\* requests); the model grants one request a day
RouteConfigs(s) == {NewConfig(s, TRUE, 1, 0)}

\* the application: the two limiters share the environment's capacity and
\* window, the flag is set or not, every service is unconfigured or configured
Init ==
  /\ now = 0
  /\ \E c \in 1..MaxCap : maxRequests = [l \in Limiters |-> c]
  /\ \E w \in 1..MaxWindow : windowMs = [l \in Limiters |-> w]
  /\ store = <<>>
  /\ seen = <<>>
  /\ after = [id \in Ids |-> NoAfter]
  /\ rlRet = NoRlRet
  /\ \E S \in SUBSET Services :
       apiKeys \in {f \in [S -> UNION {RouteConfigs(s) : s \in S}] :
                      \A s \in S : f[s] \in RouteConfigs(s)}
  /\ keyRet = NoKeyRet
  /\ recent = [s \in Services |-> [i \in 0..DayMs |-> 0]]
  /\ cache = <<>>
  /\ lastSet = <<>>
  /\ cacheRet = NoCacheRet
  /\ enableRateLimiting \in BOOLEAN
  /\ reqs = [r \in Reqs |-> IdleReq]
  /\ resp = NoResp
  /\ admitted = <<>>
  /\ refilled = <<>>
  /\ view = Unmounted
  /\ enabled = FALSE
  /\ logs = <<>>
  /\ logsRet = NoLogs
  /\ logged = 0

Spec == Init /\ [][Next]_vars

\* places requests that overlap: two handlers can be suspended at once
Overlapping == {"r1", "r2"}

NextOverlap ==
  \/ Tick
  \/ \E r \in DOMAIN reqs, id \in Clients : Start(r, "places", id)
  \/ \E r \in DOMAIN reqs, body \in Bodies, v \in Validations, loc \in Locations,
          k \in Queries :
       PlacesParsed(r, body, v, loc, k)
  \/ \E r \in DOMAIN reqs, o \in {"fail", EmptyResult, "a"} : PlacesFetched(r, o)
  \/ LimiterTimer
  \/ CacheTimer

\* the places endpoint under overlapping requests: Google Maps is configured
\* with a daily limit of MaxLimit, the rate limit is MaxCap per MaxWindow
InitOverlap ==
  /\ now = 0
  /\ maxRequests = [l \in Limiters |-> MaxCap]
  /\ windowMs = [l \in Limiters |-> MaxWindow]
  /\ store = <<>>
  /\ seen = <<>>
  /\ after = [id \in Ids |-> NoAfter]
  /\ rlRet = NoRlRet
  /\ apiKeys = [s \in {"googleMaps"} |-> NewConfig(s, TRUE, MaxLimit, 0)]
  /\ keyRet = NoKeyRet
  /\ recent = [s \in Services |-> [i \in 0..DayMs |-> 0]]
  /\ cache = <<>>
  /\ lastSet = <<>>
  /\ cacheRet = NoCacheRet
  /\ enableRateLimiting \in BOOLEAN
  /\ reqs = [r \in Overlapping |-> IdleReq]
  /\ resp = NoResp
  /\ admitted = <<>>
  /\ refilled = <<>>
  /\ view = Unmounted
  /\ enabled = FALSE
  /\ logs = <<>>
  /\ logsRet = NoLogs
  /\ logged = 0

SpecOverlap == InitOverlap /\ [][NextOverlap]_vars

\* the limiter as the application drives it: the handlers call check, the
\* timer calls cleanup, reset has no caller; the allowed checks of one client
\* are counted at the time they are made
NextTimed ==
  \/ Tick
  \/ \E l \in Limiters, id \in Clients : Check(l, id)
  \/ \E l \in Limiters : Cleanup(l)

InitTimed ==
  /\ now = 0
  /\ \E c \in 1..MaxCap : maxRequests = [l \in Limiters |-> c]
  /\ \E w \in 1..MaxWindow : windowMs = [l \in Limiters |-> w]
  /\ store = <<>>
  /\ seen = <<>>
  /\ after = [id \in Ids |-> NoAfter]
  /\ rlRet = NoRlRet
  /\ apiKeys = <<>>
  /\ keyRet = NoKeyRet
  /\ recent = [s \in Services |-> [i \in 0..DayMs |-> 0]]
  /\ cache = <<>>
  /\ lastSet = <<>>
  /\ cacheRet = NoCacheRet
  /\ enableRateLimiting = TRUE
  /\ reqs = [r \in Reqs |-> IdleReq]
  /\ resp = NoResp
  /\ admitted = [id \in Clients |-> [t \in 0..MaxTime |-> 0]]
  /\ refilled = <<>>
  /\ view = Unmounted
  /\ enabled = FALSE
  /\ logs = <<>>
  /\ logsRet = NoLogs
  /\ logged = 0

SpecTimed == InitTimed /\ [][NextTimed]_vars

\* the whole life of the bucket of one client: checks, resets, the timer's
\* cleanup; the lastRefill each check leaves is remembered
NextLife ==
  \/ Tick
  \/ \E l \in Limiters, id \in Clients : Check(l, id)
  \/ \E l \in Limiters, id \in Clients : Reset(l, id)
  \/ \E l \in Limiters : Cleanup(l)

InitLife ==
  /\ now = 0
  /\ \E c \in 1..MaxCap : maxRequests = [l \in Limiters |-> c]
  /\ \E w \in 1..MaxWindow : windowMs = [l \in Limiters |-> w]
  /\ store = <<>>
  /\ seen = <<>>
  /\ after = [id \in Ids |-> NoAfter]
  /\ rlRet = NoRlRet
  /\ apiKeys = <<>>
  /\ keyRet = NoKeyRet
  /\ recent = [s \in Services |-> [i \in 0..DayMs |-> 0]]
  /\ cache = <<>>
  /\ lastSet = <<>>
  /\ cacheRet = NoCacheRet
  /\ enableRateLimiting = TRUE
  /\ reqs = [r \in Reqs |-> IdleReq]
  /\ resp = NoResp
  /\ admitted = <<>>
  /\ refilled = [id \in Clients |-> NoRefill]
  /\ view = Unmounted
  /\ enabled = FALSE
  /\ logs = <<>>
  /\ logsRet = NoLogs
  /\ logged = 0

SpecLife == InitLife /\ [][NextLife]_vars

\* a MapDisplay: its renders, the marker effect, the steps of its
\* initialization and clicks on the places list
NextMap ==
  \/ Rendered
  \/ MarkerEffect
  \/ \E o \in {"ok", "notOk", "reject"}, m \in Messages : KeyFetched(o, m)
  \/ \E ok \in BOOLEAN, m \in Messages, b \in Builds : KeyParsed(ok, m, b)
  \/ \E ok \in BOOLEAN, m \in Messages, b \in Builds : SdkLoaded(ok, m, b)
  \/ \E p \in PlaceLists, u \in BOOLEAN : PropsChanged(p, u)
  \/ \E i \in 1..MaxPlaces : ClickPlace(i)

InitMap ==
  /\ now = 0
  /\ maxRequests = [l \in Limiters |-> 1]
  /\ windowMs = [l \in Limiters |-> 1]
  /\ store = <<>>
  /\ seen = <<>>
  /\ after = [id \in Ids |-> NoAfter]
  /\ rlRet = NoRlRet
  /\ apiKeys = <<>>
  /\ keyRet = NoKeyRet
  /\ recent = [s \in Services |-> [i \in 0..DayMs |-> 0]]
  /\ cache = <<>>
  /\ lastSet = <<>>
  /\ cacheRet = NoCacheRet
  /\ enableRateLimiting = TRUE
  /\ reqs = [r \in Reqs |-> IdleReq]
  /\ resp = NoResp
  /\ admitted = <<>>
  /\ refilled = <<>>
  /\ \E p \in PlaceLists, u \in BOOLEAN : view = Mounted(p, u)
  /\ enabled = FALSE
  /\ logs = <<>>
  /\ logsRet = NoLogs
  /\ logged = 0

SpecMap == InitMap /\ [][NextMap]_vars

\* the audit logger alone, with ENABLE_AUDIT_LOG 'true' or not
NextAudit ==
  \/ \E lv \in Levels, c \in LogClients : Log(lv, c)
  \/ \E lv \in Levels \cup {NoFilter}, c \in LogClients, n \in 0..maxLogs :
       GetLogs(lv, c, n)
  \/ Clear
  \/ CallerPops

InitAudit ==
  /\ now = 0
  /\ maxRequests = [l \in Limiters |-> 1]
  /\ windowMs = [l \in Limiters |-> 1]
  /\ store = <<>>
  /\ seen = <<>>
  /\ after = [id \in Ids |-> NoAfter]
  /\ rlRet = NoRlRet
  /\ apiKeys = <<>>
  /\ keyRet = NoKeyRet
  /\ recent = [s \in Services |-> [i \in 0..DayMs |-> 0]]
  /\ cache = <<>>
  /\ lastSet = <<>>
  /\ cacheRet = NoCacheRet
  /\ enableRateLimiting = TRUE
  /\ reqs = [r \in Reqs |-> IdleReq]
  /\ resp = NoResp
  /\ admitted = <<>>
  /\ refilled = <<>>
  /\ view = Unmounted
  /\ enabled \in BOOLEAN
  /\ logs = <<>>
  /\ logsRet = NoLogs
  /\ logged = 0

SpecAudit == InitAudit /\ [][NextAudit]_vars

\* ------------------------------------------------- RateLimiter properties

\* the step is a check call of instance l for id
CheckStep(l, id) ==
  rlRet'.op = "check" /\ rlRet'.lim = l /\ rlRet'.id = id /\ Check(l, id)

\* the stored bucket of id is still inside the window that followed its creation
InFirstWindow(l, id) == id \in DOMAIN seen /\ now < seen[id].born + windowMs[l]

\* C1: burst cap. Among the checks of an identifier made before
\* t0 + windowMs, t0 being the time of the first check of an identifier that
\* has no bucket, exactly the first maxRequests are allowed and every later
\* one is denied with remaining = 0.
BurstCap ==
  [][\A l \in Limiters, id \in DOMAIN after :
       (CheckStep(l, id) /\ (Stored(id) => InFirstWindow(l, id)))
       => /\ rlRet'.allowed <=>
               (IF Stored(id) THEN seen[id].n < maxRequests[l] ELSE TRUE)
          /\ (~rlRet'.allowed) => rlRet'.remaining = 0]_vars

\* C2: window refill. A check on an existing bucket with
\* now - lastRefill >= windowMs is allowed, returns remaining = maxRequests - 1
\* whatever the tokens were, and sets lastRefill = now; with
\* now - lastRefill < windowMs it adds no tokens and keeps lastRefill.
WindowRefill ==
  [][\A l \in Limiters, id \in Ids :
       (CheckStep(l, id) /\ Stored(id))
       => IF now - store[id].lastRefill >= windowMs[l]
          THEN /\ rlRet'.allowed
               /\ rlRet'.remaining = maxRequests[l] - 1
               /\ store'[id].tokens = maxRequests[l] - 1
               /\ store'[id].lastRefill = now
          ELSE /\ store'[id].lastRefill = store[id].lastRefill
               /\ store'[id].tokens =
                    (IF store[id].tokens > 0 THEN store[id].tokens - 1 ELSE 0)]_vars

\* a check has just refilled a bucket that was created earlier and had served
\* more checks than the capacity
WindowRefillWitness ==
  \E l \in Limiters, id \in Ids :
    /\ rlRet.op = "check" /\ rlRet.lim = l /\ rlRet.id = id /\ rlRet.allowed
    /\ Stored(id) /\ store[id].lastRefill = now
    /\ seen[id].born < now /\ seen[id].n > maxRequests[l]
    /\ rlRet.remaining = maxRequests[l] - 1 /\ maxRequests[l] = 2

\* C3: the resetAt of every check result, allowed or denied, is the bucket's
\* lastRefill after the refill step plus windowMs; so every check inside the
\* window that follows the bucket's creation reports creation time + windowMs.
\* The checks are those of an identifier that has a bucket once the call is over.
ResetAtRule ==
  [][\A l \in Limiters, id \in Ids :
       (CheckStep(l, id) /\ Stored(id)')
       => /\ rlRet'.resetAt = store'[id].lastRefill + windowMs[l]
          /\ (now < seen'[id].born + windowMs[l])
               => rlRet'.resetAt = seen'[id].born + windowMs[l]]_vars

\* a denied check made after the creation time but inside the first window
ResetAtWitness ==
  \E l \in Limiters, id \in Ids :
    /\ rlRet.op = "check" /\ rlRet.lim = l /\ rlRet.id = id /\ ~rlRet.allowed
    /\ InFirstWindow(l, id) /\ seen[id].born < now
    /\ rlRet.resetAt = seen[id].born + windowMs[l]

\* C4: every stored bucket has 0 <= tokens <= maxRequests, and the remaining
\* of an allowed check lies in 0 .. maxRequests - 1.
BucketInv ==
  /\ \A l \in Limiters, id \in Ids :
       Stored(id) =>
         store[id].tokens >= 0 /\ store[id].tokens <= maxRequests[l]
  /\ (rlRet.op = "check" /\ rlRet.allowed)
       => rlRet.remaining >= 0 /\ rlRet.remaining <= maxRequests[rlRet.lim] - 1

\* an allowed check after a refill, while another bucket is empty
BucketInvWitness ==
  \E id \in Ids, other \in Ids :
    /\ id # other /\ rlRet.op = "check" /\ rlRet.id = id /\ rlRet.allowed
    /\ id \in DOMAIN store /\ other \in DOMAIN store
    /\ seen[id].born < store[id].lastRefill
    /\ store[id].tokens = maxRequests[rlRet.lim] - 1
    /\ store[other].tokens = 0

\* C5: check, reset and cleanup on one instance never change the tokens,
\* lastRefill or existence of the bucket another instance holds for the same
\* identifier.
SeparateBuckets ==
  [][\A l \in Limiters, id \in Ids :
       (CheckStep(l, id) \/ Reset(l, id) \/ Cleanup(l))
       => \A m \in Limiters \ {l} :
            /\ HasBucket(m, id)' <=> HasBucket(m, id)
            /\ HasBucket(m, id) => BucketOf(m, id)' = BucketOf(m, id)]_vars
\* C17: recovery after denial. If the last check of an identifier was denied
\* with resetAt = r, the next check of that identifier made at a time >= r is
\* allowed.
RecoveryAfterDenial ==
  [][\A l \in Limiters, id \in Ids :
       (CheckStep(l, id) /\ after[id].deny >= 0 /\ now >= after[id].deny)
       => rlRet'.allowed]_vars

\* the check made exactly at resetAt was allowed: every earlier check of the
\* bucket fell into its first window, more of them than the capacity, so the
\* one before was denied with resetAt = now
RecoveryWitness ==
  \E l \in Limiters, id \in Ids :
    /\ rlRet.op = "check" /\ rlRet.lim = l /\ rlRet.id = id /\ rlRet.allowed
    /\ Stored(id) /\ seen[id].n = maxRequests[l] + 2
    /\ store[id].lastRefill = now /\ now = seen[id].born + windowMs[l]
    /\ rlRet.remaining = maxRequests[l] - 1

\* C19: getInfo is read-only. It changes and creates no bucket; for an unseen
\* identifier it reports limit = remaining = maxRequests, for a seen one the
\* stored token count.
GetInfoStep(l, id) ==
  rlRet'.op = "getInfo" /\ rlRet'.lim = l /\ rlRet'.id = id /\ GetInfo(l, id)

GetInfoReadOnly ==
  [][\A l \in Limiters, id \in DOMAIN after :
       GetInfoStep(l, id)
       => /\ store' = store
          /\ rlRet'.limit = maxRequests[l]
          /\ rlRet'.remaining =
               (IF id \in DOMAIN store THEN store[id].tokens ELSE maxRequests[l])]_vars

\* C20: reset(identifier) returns the identifier to the unseen state. It
\* removes that bucket and changes no other (nothing at all for an unseen
\* identifier), and the next check of the identifier, made right away or
\* later, is allowed with remaining = maxRequests - 1 and lastRefill = now.
ResetStep(l, id) ==
  rlRet'.op = "reset" /\ rlRet'.lim = l /\ rlRet'.id = id /\ Reset(l, id)

ResetToUnseen ==
  [][\A l \in Limiters, id \in DOMAIN after :
       /\ ResetStep(l, id)
          => /\ id \notin DOMAIN store'
             /\ \A o \in (DOMAIN after) \ {id} :
                  /\ (o \in DOMAIN store') <=> (o \in DOMAIN store)
                  /\ o \in DOMAIN store => store'[o] = store[o]
             /\ id \notin DOMAIN store => store' = store
             /\ CheckResult(l, id, now)'.allowed
             /\ CheckResult(l, id, now)'.remaining = maxRequests[l] - 1
             /\ CheckBucket(l, id, now)' =
                  [tokens |-> maxRequests[l] - 1, lastRefill |-> now]
       /\ (CheckStep(l, id) /\ after[id].reset)
          => /\ rlRet'.allowed
             /\ rlRet'.remaining = maxRequests[l] - 1
             /\ store'[id] = [tokens |-> maxRequests[l] - 1, lastRefill |-> now]]_vars

\* the step is a cleanup call of instance l
CleanupStep(l) == rlRet'.op = "cleanup" /\ rlRet'.lim = l /\ Cleanup(l)

\* C21: idle cleanup. cleanup() removes exactly the buckets whose lastRefill
\* is more than 2 x windowMs old and leaves every other bucket as it is; a
\* check for an identifier for which the store holds nothing, as for a
\* removed one, is allowed with remaining = maxRequests - 1.
IdleCleanup ==
  [][\A l \in Limiters :
       /\ CleanupStep(l)
          => /\ \A id \in DOMAIN store :
                  id \notin DOMAIN store' <=> now - store[id].lastRefill > 2 * windowMs[l]
             /\ \A id \in DOMAIN store' : id \in DOMAIN store /\ store'[id] = store[id]
       /\ \A id \in Ids :
            (CheckStep(l, id) /\ ~HasBucket(l, id))
            => /\ rlRet'.allowed /\ rlRet'.remaining = maxRequests[l] - 1
               /\ store'[id].lastRefill = now]_vars

\* cleanup has just removed a bucket whose last check was denied and kept the
\* bucket of the other identifier
IdleCleanupWitness ==
  \E id \in Ids, other \in Ids :
    /\ rlRet.op = "cleanup"
    /\ after[id].deny >= 0 /\ ~after[id].reset /\ id \notin DOMAIN store
    /\ other # id /\ other \in DOMAIN store

\* C31: lastRefill is monotonic. With a clock that never goes back, the
\* lastRefill a check leaves in the bucket of an identifier is never smaller
\* than the one the previous check of that identifier left, also when reset
\* or cleanup removed the bucket in between and this check creates it anew.
LastRefillMonotonic ==
  [][\A l \in Limiters, id \in DOMAIN refilled :
       (CheckStep(l, id) /\ refilled[id].last >= 0)
       => /\ store'[id].lastRefill >= refilled[id].last
          /\ rlRet'.resetAt - windowMs[l] >= refilled[id].last]_vars

\* a check made after time 0 has just created the bucket anew for an
\* identifier whose earlier bucket was removed after it had been checked
LastRefillWitness ==
  \E l \in Limiters, id \in DOMAIN refilled :
    /\ rlRet.op = "check" /\ rlRet.lim = l /\ rlRet.id = id
    /\ refilled[id].back /\ refilled[id].last = now /\ now > 0
    /\ store[id] = [tokens |-> maxRequests[l] - 1, lastRefill |-> now]

\* the allowed checks of id made at the times s .. e - 1
RECURSIVE AllowedIn(_, _, _)
AllowedIn(id, s, e) ==
  IF s >= e \/ s > MaxTime THEN 0
  ELSE admitted[id][s] + AllowedIn(id, s + 1, e)

\* C32: bounded admission across window boundaries. With capacity c >= 1, at
\* most 2 x c checks of an identifier are allowed in any half-open interval
\* of length windowMs, and at most (k + 1) x c in any interval of length
\* k x windowMs.
BoundedAdmission ==
  \A l \in Limiters, id \in DOMAIN admitted :
    \A s \in 0..MaxTime, k \in 1..(MaxTime + 1) :
      AllowedIn(id, s, s + k * windowMs[l]) <= (k + 1) * maxRequests[l]

\* an interval of one window holds more allowed checks than the capacity:
\* what an earlier window left and a refill inside the interval, c = 2
BoundedAdmissionWitness ==
  \E l \in Limiters, id \in DOMAIN admitted, s \in 1..MaxTime :
    /\ maxRequests[l] = 2 /\ windowMs[l] = 2
    /\ admitted[id][s - 1] > 0
    /\ AllowedIn(id, s, s + windowMs[l]) = 3

\* C33: cleanup is invisible to admission decisions. With one configuration
\* and capacity >= 1, a check of any identifier at any later time returns the
\* same result (allowed, remaining, resetAt) and leaves the same bucket when
\* made on the store a cleanup call leaves as when made on the store before
\* that call; so a sequence of timed checks yields the same results with or
\* without cleanup calls between them.
CleanupInvisible ==
  [][\A l \in Limiters :
       CleanupStep(l)
       => \A m \in Limiters, id \in Ids, t \in now..MaxTime :
            /\ CheckResult(m, id, t)' = CheckResult(m, id, t)
            /\ CheckBucket(m, id, t)' = CheckBucket(m, id, t)]_vars

\* cleanup has just swept the emptied bucket of an identifier whose last
\* check was denied, and a check made now would be allowed
CleanupInvisibleWitness ==
  \E l \in Limiters, id \in Clients :
    /\ rlRet.op = "cleanup" /\ rlRet.lim = l
    /\ after[id].deny >= 0 /\ ~after[id].reset /\ ~HasBucket(l, id)
    /\ CheckResult(l, id, now).allowed
    /\ CheckResult(l, id, now).remaining = maxRequests[l] - 1

\* ----------------------------------------------- ApiKeyManager properties

\* the step is a getGoogleAiKey / getGoogleMapsKey call for service s
GrantStep(s) == keyRet'.op = "grant" /\ keyRet'.svc = s /\ Grant(s)

\* s is configured with a daily limit of at least 1
Limited(s) ==
  s \in DOMAIN apiKeys /\ apiKeys[s].hasLimit /\ apiKeys[s].dailyLimit >= 1

\* C6: quota ceiling. With dailyLimit L >= 1, usageCount <= L in every state;
\* a grant call without rollover returns the credential exactly when
\* usageCount < L (so from 0 exactly the first L succeed) and a denied call
\* returns null and leaves usageCount as it was.
QuotaCeiling ==
  /\ [](\A s \in Services : Limited(s) => apiKeys[s].usageCount <= apiKeys[s].dailyLimit)
  /\ [][\A s \in Services :
          (GrantStep(s) /\ Limited(s) /\ now - apiKeys[s].lastReset < DayMs)
          => /\ (keyRet'.key # NullKey) <=> (apiKeys[s].usageCount < apiKeys[s].dailyLimit)
             /\ (keyRet'.key # NullKey) =>
                  /\ keyRet'.key = apiKeys[s].key
                  /\ apiKeys'[s].usageCount = apiKeys[s].usageCount + 1
             /\ (keyRet'.key = NullKey) =>
                  apiKeys'[s].usageCount = apiKeys[s].usageCount]_vars

\* a grant was refused at the limit 2 before any rollover could happen
QuotaCeilingWitness ==
  \E s \in Services :
    /\ keyRet.op = "grant" /\ keyRet.svc = s /\ keyRet.key = NullKey
    /\ Limited(s) /\ apiKeys[s].dailyLimit = 2 /\ apiKeys[s].usageCount = 2
    /\ apiKeys[s].lastReset = 0 /\ now < DayMs

\* C7: quota rollover. A grant attempt with now - lastReset >= 24h sets
\* usageCount = 0 and lastReset = now before the limit check, so with a limit
\* of at least 1 (or none) it succeeds with usageCount = 1; an attempt with
\* now - lastReset < 24h never resets the counter; nothing but a grant attempt
\* changes a configuration, and lastReset never decreases.
QuotaRollover ==
  [][/\ \A s \in DOMAIN apiKeys :
          /\ GrantStep(s) =>
               /\ IF now - apiKeys[s].lastReset >= DayMs
                  THEN /\ apiKeys'[s].lastReset = now
                       /\ apiKeys'[s].usageCount =
                            (IF keyRet'.key # NullKey THEN 1 ELSE 0)
                       /\ (~apiKeys[s].hasLimit \/ apiKeys[s].dailyLimit >= 1)
                            => keyRet'.key = apiKeys[s].key
                  ELSE /\ apiKeys'[s].lastReset = apiKeys[s].lastReset
                       /\ apiKeys'[s].usageCount >= apiKeys[s].usageCount
               /\ \A o \in (DOMAIN apiKeys) \ {s} : apiKeys'[o] = apiKeys[o]
          /\ apiKeys'[s].lastReset >= apiKeys[s].lastReset
     /\ DOMAIN apiKeys' = DOMAIN apiKeys
     /\ (\A s \in Services : ~GrantStep(s)) => apiKeys' = apiKeys]_vars

\* a grant has just rolled the counter over although the limit had been
\* reached: the limit's worth of grants lies less than a day back
QuotaRolloverWitness ==
  \E s \in Services :
    /\ keyRet.op = "grant" /\ keyRet.svc = s /\ keyRet.key # NullKey
    /\ Limited(s) /\ apiKeys[s].usageCount = 1 /\ apiKeys[s].lastReset = now
    /\ now >= DayMs /\ WindowGrants(s) = apiKeys[s].dailyLimit + 1

\* C8 as stated: with dailyLimit L >= 1, at most L grants are issued in any
\* interval of 24 hours.
DailyLimitPerDay ==
  \A s \in Services : Limited(s) => WindowGrants(s) <= apiKeys[s].dailyLimit

\* C8 amended: with dailyLimit L >= 1, at most 2 x L grants are issued in
\* any interval of 24 hours (at most L between two rollovers, and a rollover
\* can fall inside the interval).
DailyLimitTwice ==
  \A s \in Services : Limited(s) => WindowGrants(s) <= 2 * apiKeys[s].dailyLimit

\* 2 x L grants lie within 24 hours, L = 2
DailyLimitTwiceWitness ==
  \E s \in Services :
    Limited(s) /\ apiKeys[s].dailyLimit = 2 /\ WindowGrants(s) = 4

\* C24: usageCount is an exact count of grants. A key request that returns the
\* key adds one to usageCount (counted from zero if the rollover was due), a
\* refused one changes neither usageCount nor lastReset, no other step changes
\* them, and getUsageStats reports count = usageCount and, when a limit is
\* configured, remaining = limit - count >= 0.
UsageCountExact ==
  [][\A s \in Services :
       /\ (GrantStep(s) /\ keyRet'.key # NullKey)
          => /\ apiKeys'[s].usageCount = ResetIfNeeded(apiKeys[s], now).usageCount + 1
             /\ apiKeys'[s].lastReset = ResetIfNeeded(apiKeys[s], now).lastReset
       /\ (GrantStep(s) /\ keyRet'.key = NullKey) => apiKeys' = apiKeys
       /\ keyRet'.op # "grant" => apiKeys' = apiKeys
       /\ (keyRet'.op = "stats" /\ s \in DOMAIN apiKeys)
          => /\ keyRet'.stats[s].count = apiKeys[s].usageCount
             /\ apiKeys[s].hasLimit
                => /\ keyRet'.stats[s].hasRemaining
                   /\ keyRet'.stats[s].remaining = apiKeys[s].dailyLimit - apiKeys[s].usageCount
                   /\ keyRet'.stats[s].remaining >= 0]_vars

\* getUsageStats has just reported remaining = 0 for a service whose limit of
\* 2 is used up by two key requests of the last 24 hours
UsageCountWitness ==
  \E s \in Services :
    /\ keyRet.op = "stats" /\ s \in DOMAIN apiKeys
    /\ apiKeys[s].dailyLimit = 2 /\ apiKeys[s].usageCount = 2
    /\ keyRet.stats[s].count = 2 /\ keyRet.stats[s].remaining = 0
    /\ WindowGrants(s) = 2

\* ------------------------------------------------------- Cache properties

\* the step is a get / has call for key k
GetStep(k) == cacheRet'.op = "get" /\ cacheRet'.key = k /\ CacheGet(k)
HasStep(k) == cacheRet'.op = "has" /\ cacheRet'.key = k /\ CacheHas(k)

\* the last set of k, not followed by delete or clear, named a ttl > 0
SetWithTtl(k) == k \in DOMAIN lastSet /\ lastSet[k].ttl.given /\ lastSet[k].ttl.ms > 0

\* C9: cache expiry. After set(key, v, ttl) at time t with ttl > 0 and no
\* later set, delete or clear of the key, get(key) at time t' returns v
\* exactly when t' <= t + ttl; a get or has at t' > t + ttl reports absent and
\* removes the entry.
CacheExpiry ==
  [][\A k \in Keys :
       /\ (GetStep(k) /\ SetWithTtl(k))
          => /\ cacheRet'.found <=> (now <= lastSet[k].at + lastSet[k].ttl.ms)
             /\ cacheRet'.found => cacheRet'.data = lastSet[k].data
             /\ (~cacheRet'.found) => cacheRet'.data = NullData
       /\ ((GetStep(k) \/ HasStep(k)) /\ SetWithTtl(k)
             /\ now > lastSet[k].at + lastSet[k].ttl.ms)
          => (~cacheRet'.found) /\ k \notin DOMAIN cache']_vars

\* a get at time t + ttl exactly returned the value of a set made with ttl = 2
CacheExpiryWitness ==
  \E k \in Keys :
    /\ cacheRet.op = "get" /\ cacheRet.key = k /\ cacheRet.found
    /\ SetWithTtl(k) /\ lastSet[k].ttl.ms = 2 /\ now = lastSet[k].at + 2
    /\ cacheRet.data = lastSet[k].data

\* C10: last writer wins. After two set calls on a key with different values
\* and any ttls, a later get returns the second value or absent, never the
\* first, and a stored entry is the one written by the last set.
LastWriterWins ==
  /\ \A k \in DOMAIN cache :
       k \in DOMAIN lastSet /\ cache[k].data = lastSet[k].data
                            /\ cache[k].timestamp = lastSet[k].at
  /\ \A k \in Keys :
       (cacheRet.op = "get" /\ cacheRet.key = k /\ k \in DOMAIN lastSet
          /\ lastSet[k].prev # NullData /\ lastSet[k].prev # lastSet[k].data)
       => /\ cacheRet.data # lastSet[k].prev
          /\ cacheRet.found => cacheRet.data = lastSet[k].data

\* a get returned the second of two different values set while the first was
\* still live
LastWriterWinsWitness ==
  \E k \in Keys :
    /\ cacheRet.op = "get" /\ cacheRet.key = k /\ cacheRet.found
    /\ k \in DOMAIN lastSet /\ lastSet[k].prev # NullData
    /\ lastSet[k].prev # lastSet[k].data /\ cacheRet.data = lastSet[k].data
    /\ lastSet[k].at = now

\* the step is a set call for key k with ttl
SetStep(k, ttl) == cacheRet'.op = "set" /\ cacheRet'.key = k /\ cacheRet'.ttl = ttl

\* C22: set uses the default TTL only when no ttl is given. For every ttl
\* supplied, 0 included, the entry stored has expiresAt = now + ttl; with ttl
\* omitted it has expiresAt = now + defaultTTL.
SetTtlAsGiven ==
  [][\A k \in Keys, ttl \in Ttls :
       SetStep(k, ttl)
       => cache'[k].expiresAt = now + (IF ttl.given THEN ttl.ms ELSE defaultTTL)]_vars

\* C29: no sliding expiration. get and has on a live entry leave the whole
\* store as it is; the store changes only in set, delete, clear and cleanup,
\* and in a get or has that finds its entry expired, which removes that entry
\* and nothing else.
NoSlidingExpiration ==
  [][/\ \A k \in Keys :
          ((GetStep(k) \/ HasStep(k)) /\ k \in DOMAIN cache /\ now <= cache[k].expiresAt)
          => cache' = cache /\ cacheRet'.found
     /\ cache' # cache
        => \/ cacheRet'.op \in {"set", "delete", "clear", "cleanup"}
           \/ /\ cacheRet'.op \in {"get", "has"}
              /\ cacheRet'.key \in DOMAIN cache
              /\ now > cache[cacheRet'.key].expiresAt
              /\ cache' = Drop(cache, {cacheRet'.key})]_vars

\* has found an entry at the last instant of its life, stored earlier, and
\* left it as it was stored
NoSlidingWitness ==
  \E k \in Keys :
    /\ cacheRet.op = "has" /\ cacheRet.key = k /\ cacheRet.found
    /\ k \in DOMAIN cache /\ cache[k].expiresAt = now /\ cache[k].timestamp < now
    /\ k \in DOMAIN lastSet /\ cache[k].timestamp = lastSet[k].at
    /\ cache[k].data = lastSet[k].data

\* C30: read path and sweep agree on expiry. cleanup() deletes exactly the
\* entries that get and has report absent at that time (now > expiresAt) and
\* keeps the others as they are; size() is the number of stored entries,
\* expired ones not yet removed included.
SweepAgreesWithRead ==
  [][/\ cacheRet'.op = "cleanup"
        => /\ \A k \in DOMAIN cache :
                /\ k \notin DOMAIN cache' <=> now > cache[k].expiresAt
                /\ k \notin DOMAIN cache' <=> GetData(k, now) = NullData
           /\ \A k \in DOMAIN cache' : k \in DOMAIN cache /\ cache'[k] = cache[k]
     /\ cacheRet'.op = "size"
        => cacheRet'.size = Cardinality(DOMAIN cache) /\ cache' = cache]_vars

\* size counted an entry that had expired and was still stored
SweepAgreesWitness ==
  \E k \in Keys :
    /\ cacheRet.op = "size" /\ cacheRet.size >= 1
    /\ k \in DOMAIN cache /\ now > cache[k].expiresAt

\* ------------------------------------------------------- route properties

\* the step made a check that came back denied
DeniedStep == rlRet'.op = "check" /\ ~rlRet'.allowed

\* no request that was not at its external call before the step is at it after
NoNewCall == \A r \in DOMAIN reqs : reqs'[r].pc = "fetch" => reqs[r].pc = "fetch"

\* the step set no cache entry: every entry left is the one that was there
NoCacheWrite ==
  /\ cacheRet'.op # "set"
  /\ \A k \in DOMAIN cache' : k \in DOMAIN cache /\ cache'[k] = cache[k]

\* C11: short-circuit on rate-limit denial. A handler step whose check is
\* denied looks nothing up in the cache and sets nothing in it, asks for no key
\* (every usageCount is unchanged), starts no external call, and takes no
\* token: the bucket is left with the zero tokens the refill found.
DenialShortCircuit ==
  [][DeniedStep
     => /\ cache' = cache /\ cacheRet' = NoCacheRet
        /\ apiKeys' = apiKeys /\ keyRet' = NoKeyRet
        /\ NoNewCall /\ reqs' = reqs
        /\ resp'.did = {"check"}
        /\ store'[rlRet'.id].tokens = 0
        /\ store'[rlRet'.id].tokens = Refill(rlRet'.lim, store[rlRet'.id], now).tokens]_vars

\* a place-photo request is denied while a cache entry and a used key exist
DenialShortCircuitWitness ==
  /\ rlRet.op = "check" /\ ~rlRet.allowed
  /\ resp.ep = "photo" /\ resp.did = {"check"}
  /\ cache # <<>>
  /\ "googleMaps" \in DOMAIN apiKeys /\ apiKeys["googleMaps"].usageCount = 1

\* the step looked key k up in the cache and found a live entry
HitStep(k) ==
  /\ cacheRet'.op = "get" /\ cacheRet'.key = k
  /\ k \in DOMAIN cache /\ now <= cache[k].expiresAt

\* what a cache hit does, whatever the rate limiting: the cached value is
\* returned, no key is asked for, no external call is made
HitServed(k) ==
  /\ resp'.ep = "places" /\ resp'.status = 200 /\ resp'.cached = "true"
  /\ resp'.data = cache[k].data
  /\ apiKeys' = apiKeys /\ keyRet' = NoKeyRet
  /\ NoNewCall /\ "fetch" \notin resp'.did /\ "grant" \notin resp'.did

\* the statement of C12 as written: every cache hit has consumed a token
CacheHitTakesToken ==
  [][\A k \in Queries : HitStep(k) => (HitServed(k) /\ "token" \in resp'.did)]_vars

\* C12: cache hit bypasses quota. A places request that finds a live cache
\* entry returns the cached value, leaves every usageCount unchanged and makes
\* no external call, however often it is repeated; it has consumed one
\* rate-limit token if ENABLE_RATE_LIMITING is 'true' and none otherwise.
CacheHitBypassesQuota ==
  [][\A k \in Queries :
       HitStep(k) => (HitServed(k) /\ ("token" \in resp'.did <=> enableRateLimiting))]_vars

\* a cache hit served without a token, after the day's only grant was used
CacheHitWitness ==
  /\ resp.ep = "places" /\ resp.cached = "true" /\ resp.data = "a"
  /\ ~enableRateLimiting /\ "token" \notin resp.did
  /\ apiKeys["googleMaps"].usageCount = 1

\* the step asked for a key and was refused
RefusedStep == keyRet'.op = "grant" /\ keyRet'.key = NullKey

\* C13: quota denial short-circuit. When the key request of a handler is
\* refused (key not configured, or daily limit reached) the handler answers
\* 503, makes no external call and sets nothing in the cache.
QuotaDenialShortCircuit ==
  [][RefusedStep
     => /\ resp'.status = 503
        /\ NoNewCall /\ "fetch" \notin resp'.did
        /\ NoCacheWrite]_vars

\* a places request is refused because the key is not configured
QuotaDenialWitness ==
  /\ keyRet.op = "grant" /\ keyRet.key = NullKey /\ keyRet.svc \notin DOMAIN apiKeys
  /\ resp.ep = "places" /\ resp.status = 503

\* one hour, the TTL of every entry the places handler stores
OneHour == PlacesTtl

\* the request of this step was given the key and threw on a location that is
\* not a string: it is not identical to a request whose call succeeded
ThrewOnLocation ==
  resp'.ep = "places" /\ resp'.status = 500 /\ "granted" \in resp'.did

\* C14: cache population. A places request whose external call succeeds
\* stores the result under its key, for one hour, in the step that responds;
\* the entry stays until it is replaced or the hour is over; a request for the
\* same key within the hour is answered from the cache with cached = true and
\* without an external call; one that comes later is not and goes on to the
\* key request.
CachePopulation ==
  [][/\ \A r \in DOMAIN reqs :
          (reqs[r].ep = "places" /\ reqs[r].pc = "fetch" /\ reqs'[r].pc = "idle"
           /\ resp'.status = 200)
          => /\ reqs[r].key \in DOMAIN cache'
             /\ cache'[reqs[r].key].data = resp'.data
             /\ cache'[reqs[r].key].expiresAt = now + OneHour
     /\ \A k \in DOMAIN cache :
          now' <= cache[k].expiresAt
          => k \in DOMAIN cache' /\ cache'[k].expiresAt >= cache[k].expiresAt
     /\ \A k \in Queries :
          /\ HitStep(k)
             => /\ resp'.cached = "true" /\ resp'.data = cache[k].data
                /\ NoNewCall /\ "fetch" \notin resp'.did
          /\ (cacheRet'.op = "get" /\ cacheRet'.key = k
              /\ k \in DOMAIN cache /\ now > cache[k].expiresAt)
             => /\ resp'.cached # "true" /\ keyRet'.op = "grant"
                /\ (keyRet'.key # NullKey
                    => \/ \E r \in DOMAIN reqs : reqs'[r].pc = "fetch"
                       \/ ThrewOnLocation)]_vars

\* a request served from the cache at the very end of the entry's hour
CachePopulationWitness ==
  /\ resp.ep = "places" /\ resp.cached = "true" /\ "fetch" \notin resp.did
  /\ resp.key \in DOMAIN cache /\ cache[resp.key].expiresAt = now /\ now = OneHour

\* request r ended in this step after its external call, with an error
FailedCall(r) ==
  reqs[r].pc = "fetch" /\ reqs'[r].pc = "idle" /\ resp'.status # 200

\* C25: no refund on downstream failure. When the external call of a request
\* fails or throws, every bucket keeps its tokens and every service its
\* usageCount and lastReset, and nothing is written to the cache.
NoRefund ==
  [][\A r \in DOMAIN reqs :
       FailedCall(r)
       => /\ store' = store /\ apiKeys' = apiKeys
          /\ cache' = cache /\ cacheRet' = NoCacheRet
          /\ {"granted", "fetch"} \subseteq resp'.did /\ "set" \notin resp'.did]_vars

\* a places search failed after it took the client's only token and the
\* day's only grant: both stay taken and the cache stays empty
NoRefundWitness ==
  /\ resp.ep = "places" /\ resp.status = 500
  /\ {"token", "granted", "fetch"} \subseteq resp.did
  /\ \A id \in DOMAIN store : store[id].tokens = 0
  /\ store # <<>> /\ maxRequests["maps"] = 1
  /\ apiKeys["googleMaps"].usageCount = 1
  /\ cache = <<>>

\* request r goes to an external call that uses the Google Maps key
UsesMapsKey(r) ==
  reqs'[r].pc = "fetch" /\ reqs[r].pc # "fetch" /\ reqs'[r].ep \in {"places", "photo"}

\* the maps-key endpoint hands the Google Maps key to the browser
HandsOutKey == resp'.ep = "mapsKey" /\ resp'.status = 200

\* the step checked the daily limit of Google Maps and counted one more use
Counted ==
  /\ "googleMaps" \in DOMAIN apiKeys
  /\ ~LimitReached(ResetIfNeeded(apiKeys["googleMaps"], now))
  /\ apiKeys'["googleMaps"].usageCount =
       ResetIfNeeded(apiKeys["googleMaps"], now).usageCount + 1

\* the statement of C26 as written: the maps-key endpoint counts too
KeyOnlyByGrant ==
  [][((\E r \in DOMAIN reqs : UsesMapsKey(r)) \/ HandsOutKey) => Counted]_vars

\* C26: a handler that takes the Google Maps key for an external call of its
\* own (places search, photo fetch) has had the daily limit checked and
\* usageCount incremented by one for it; the maps-key endpoint returns the key
\* of the environment after its rate limit check alone and leaves usageCount
\* and lastReset as they are.
KeyByGrantOrMapsKey ==
  [][/\ (\E r \in DOMAIN reqs : UsesMapsKey(r)) => Counted
     /\ HandsOutKey
        => /\ resp'.data = KeyOf("googleMaps")
           /\ apiKeys' = apiKeys /\ keyRet' = NoKeyRet
           /\ {"check", "token"} \subseteq resp'.did]_vars

\* the maps-key endpoint handed the key out when the day's limit was reached
KeyByGrantWitness ==
  /\ resp.ep = "mapsKey" /\ resp.status = 200 /\ resp.data = KeyOf("googleMaps")
  /\ apiKeys["googleMaps"].usageCount = apiKeys["googleMaps"].dailyLimit
  /\ \A r \in DOMAIN reqs : reqs[r].pc = "idle"

\* the places requests for key k that are at their external call
Calling(k) ==
  {r \in DOMAIN reqs : reqs[r].ep = "places" /\ reqs[r].pc = "fetch" /\ reqs[r].key = k}

\* C27: at most one billed call per key, also under overlap. Of the places
\* requests with the same cache key at most one is at its external call at any
\* time, and no such call is under way while the cache holds a live entry for
\* the key.
OneCallPerKey ==
  \A k \in Queries :
    /\ Cardinality(Calling(k)) <= 1
    /\ (k \in DOMAIN cache /\ now <= cache[k].expiresAt) => Calling(k) = {}

\* tokens the step took from the bucket of id: what the refill step found (a
\* full bucket when it is new) less what the step left; an untouched or removed
\* bucket gave none
TokensTaken(id) ==
  IF id \notin DOMAIN store' THEN 0
  ELSE IF id \notin DOMAIN store THEN maxRequests["maps"] - store'[id].tokens
  ELSE IF store'[id] = store[id] THEN 0
  ELSE Refill("maps", store[id], now).tokens - store'[id].tokens

\* request r passed the rate limiting step in this step: its check was allowed
PassedCheck(r) ==
  reqs[r].pc = "idle" /\ reqs'[r].pc = "parse" /\ "check" \in reqs'[r].did

\* uses the step added to the day's count of service s
GrantsCounted(s) ==
  IF s \notin DOMAIN apiKeys \/ apiKeys' = apiKeys THEN 0
  ELSE apiKeys'[s].usageCount - ResetIfNeeded(apiKeys[s], now).usageCount

\* request r was given the key in this step, whether it goes on to the
\* external call or throws before it
GotKey(r) ==
  reqs[r].pc = "parse" /\ reqs'[r].pc # "parse" /\ keyRet'.key # NullKey

\* C34: the core invariants survive request interleaving. With handlers that
\* interleave at their await points only, every bucket has
\* 0 <= tokens <= capacity and every service usageCount <= dailyLimit in every
\* reachable state, and in every step the tokens taken from the buckets are as
\* many as the requests that passed the check in it and the uses counted as
\* many as the requests given the key in it, so that the totals are equal.
InterleavingKeepsCounts ==
  /\ [](/\ \A id \in DOMAIN store :
             store[id].tokens >= 0 /\ store[id].tokens <= maxRequests["maps"]
        /\ \A s \in DOMAIN apiKeys : apiKeys[s].usageCount <= apiKeys[s].dailyLimit)
  /\ [][/\ \A id \in Ids : TokensTaken(id) \in {0, 1}
        /\ Cardinality({id \in Ids : TokensTaken(id) = 1})
             = Cardinality({r \in DOMAIN reqs : PassedCheck(r)})
        /\ \A s \in Services : GrantsCounted(s) \in {0, 1}
        /\ Cardinality({s \in Services : GrantsCounted(s) = 1})
             = Cardinality({r \in DOMAIN reqs : GotKey(r)})]_vars

\* two requests are suspended at their external calls at once: each took a
\* token from the one bucket and each was given the key and counted
InterleavingWitness ==
  /\ \A r \in DOMAIN reqs : reqs[r].pc = "fetch" /\ "token" \in reqs[r].did
  /\ Cardinality(DOMAIN reqs) = 2
  /\ \E id \in Clients :
       id \in DOMAIN store /\ store[id].tokens = maxRequests["maps"] - 2
  /\ apiKeys["googleMaps"].usageCount = 2

\* C28: cached flag on every places response. Every successful places
\* response carries the flag cached: true when the payload came from the
\* cache, false when it was fetched, an empty search result included.
CachedFlagAlways ==
  (resp.ep = "places" /\ resp.status = 200)
  => \/ resp.cached = "true" /\ "fetch" \notin resp.did
     \/ resp.cached = "false" /\ "fetch" \in resp.did

\* the step answered 400 to a places search or a chat message
RejectedStep == resp'.status = 400 /\ resp'.ep \in {"places", "chat"}

\* what a rejection by validation leaves alone: no cache lookup, no cache
\* write, no key request, no external call
RejectedEarly ==
  /\ cacheRet' = NoCacheRet /\ cache' = cache
  /\ keyRet' = NoKeyRet /\ apiKeys' = apiKeys
  /\ NoNewCall
  /\ resp'.did \subseteq {"check", "token"}

\* the statement of C35 as written: a request answered 400 for an invalid
\* query, message or history has consumed one rate-limit token, and has
\* caused no cache lookup, no cache write, no quota grant, no external call.
RejectedAfterToken ==
  [][RejectedStep => ("token" \in resp'.did /\ RejectedEarly)]_vars

\* C35: a request answered 400 for an invalid query, message or history has
\* caused no cache lookup, no cache write, no quota grant and no external
\* call; it has consumed one rate-limit token when ENABLE_RATE_LIMITING is
\* 'true', and none when it is not, as the limiter is then not consulted.
RejectedAfterTokenWhenEnabled ==
  [][RejectedStep
     => /\ enableRateLimiting => resp'.did = {"check", "token"}
        /\ ~enableRateLimiting => resp'.did = {}
        /\ RejectedEarly]_vars

\* an invalid places query was answered 400 after its check took a token,
\* while the cache holds an entry for the key and Google Maps is configured
RejectedWitness ==
  /\ resp.status = 400 /\ resp.ep = "places" /\ resp.body = "validation.error"
  /\ enableRateLimiting /\ resp.did = {"check", "token"}
  /\ resp.key \in DOMAIN cache
  /\ "googleMaps" \in DOMAIN apiKeys /\ apiKeys["googleMaps"].usageCount = 1

\* the statement of C15 as written: whatever the configuration, a request at
\* its external call has consumed a token
CallNeedsToken ==
  \A r \in DOMAIN reqs : reqs[r].pc = "fetch" => {"check", "token"} \subseteq reqs[r].did

\* C15: a request at its external call has passed an allowed check in the same
\* request whenever rate limiting applies to it: always for the photo fetch,
\* and for the places search and the chat when ENABLE_RATE_LIMITING is 'true'.
CallNeedsTokenWhenEnabled ==
  \A r \in DOMAIN reqs :
    (reqs[r].pc = "fetch" /\ (enableRateLimiting \/ reqs[r].ep = "photo"))
    => {"check", "token"} \subseteq reqs[r].did

\* a places search at its external call with rate limiting enabled
CallNeedsTokenWitness ==
  \E r \in DOMAIN reqs :
    /\ reqs[r].pc = "fetch" /\ reqs[r].ep = "places"
    /\ enableRateLimiting /\ "token" \in reqs[r].did

\* C16: a denial is an expected outcome. On every endpoint a denied check is
\* answered with 429, never a 5xx, and the result of the denied check carries
\* resetAt, the end of the bucket's window, which lies ahead.
DenialIs429 ==
  [][DeniedStep
     => /\ resp'.status = 429
        /\ resp'.ep \in {"places", "chat", "photo", "mapsKey"}
        /\ rlRet'.resetAt = store'[rlRet'.id].lastRefill + windowMs[rlRet'.lim]
        /\ rlRet'.resetAt > now]_vars

\* a maps-key request is denied
DenialIs429Witness ==
  /\ rlRet.op = "check" /\ ~rlRet.allowed
  /\ resp.ep = "mapsKey" /\ resp.status = 429

\* C18: not configured and limit reached look the same. Whatever made the key
\* request fail, the endpoint answers with status 503 and one fixed body, and
\* the response holds no data: no count, no limit, no key.
RefusalsAlike ==
  [][RefusedStep
     => /\ resp'.status = 503
        /\ resp'.ep \in {"places", "chat", "photo"}
        /\ keyRet'.svc = ServiceOf(resp'.ep)
        /\ resp'.body =
             (CASE resp'.ep = "places" ->
                     "Maps service temporarily unavailable. Please try again later."
                [] resp'.ep = "chat" ->
                     "AI service temporarily unavailable. Please try again later."
                [] OTHER -> "Maps service unavailable")
        /\ resp'.data = NullData /\ resp'.cached = "absent" /\ resp'.resetAt = -1]_vars

\* a chat request is refused because the daily limit is reached
RefusalsAlikeWitness ==
  /\ keyRet.op = "grant" /\ keyRet.key = NullKey
  /\ keyRet.svc = "googleAi" /\ "googleAi" \in DOMAIN apiKeys
  /\ apiKeys["googleAi"].usageCount >= apiKeys["googleAi"].dailyLimit
  /\ resp.ep = "chat" /\ resp.status = 503

\* ------------------------------------------------ map component properties

\* C36: map initialization runs at most once per mounted component. However
\* often the container ref callback fires, before, during or after the
\* asynchronous initialization, the sequence of key fetch, SDK load and map
\* construction is started at most once, and when it has ended isLoading is
\* false and exactly one of map and error is set (in the state that
\* useState holds).
InitializedOnce ==
  /\ view.starts <= 1
  /\ view.pc = "ended"
       => /\ ~view.state.isLoading
          /\ view.state.map <=> view.state.error = "null"

\* C37: clicking the entry of the i-th place in the places list of MapDisplay
\* runs the click handler of the marker created for that place, with or
\* without a user location and whatever coordinates the places have.
ListClickHitsMarker ==
  [][\A i \in 1..MaxPlaces :
       (view.map /\ view'.index = i /\ ClickPlace(i)) => view'.clicked = i]_vars

\* ---------------------------------------------------- AuditLogger properties

\* C38: the audit log is bounded and FIFO. The log holds at most maxLogs
\* entries, namely the most recent ones in arrival order; when logging is
\* disabled no entry is ever stored; getLogs returns a copy: neither the call
\* nor what its caller does to the returned array changes the stored log.
AuditLogBounded ==
  /\ [](/\ Len(logs) <= maxLogs
        /\ enabled => /\ Len(logs) = Min(logged, maxLogs)
                      /\ \A i \in 1..Len(logs) : logs[i].n = logged - Len(logs) + i
        /\ ~enabled => logs = <<>>)
  /\ [][logsRet' # logsRet => logs' = logs]_vars

\* more calls were logged than the log holds, the oldest entries are gone, and
\* the caller of getLogs has shortened the array it was given
AuditLogWitness ==
  /\ enabled /\ logged > maxLogs /\ Len(logs) = maxLogs /\ logs[1].n > 1
  /\ logsRet.op = "popped" /\ Len(logsRet.list) < Len(logs)
  /\ \E i \in 1..Len(logsRet.list) : logsRet.list[i] = logs[i]

====
